---- MODULE Spec2Model ----
(***************************************************************************)
(* Verification model of the typescript-skillup-session demo repository:   *)
(*   - the route-parameter example (type-level ExtractParamNames and the   *)
(*     runtime fillPath / makeUrl),                                        *)
(*   - the event-loop snippet of the JavaScript crash course,              *)
(*   - the topic-04 truthiness functions (getDiscount, greet),             *)
(*   - the end-to-end order apps (JavaScript and TypeScript) and the       *)
(*     async demo's top-level calls.                                       *)
(* Strings that the code parses are sequences of one-character strings;    *)
(* strings that the code only builds are TLA+ strings.                     *)
(***************************************************************************)
EXTENDS Integers, Sequences, FiniteSets, TLC

VARIABLES
    rCall,      \* route demo: the call written in the source file
    rStage,     \* route demo: "written" -> "compiled" -> "ran"
    rNames,     \* route demo: parameter names derived by the type checker
    rVerdict,   \* route demo: "accepted" / "rejected" by the type checker
    rOut,       \* route demo: outcome of running the call
    eProg,      \* event loop: the script being run
    eRun,       \* event loop: statements left of the task on the call stack
    eTimers,    \* event loop: timer callbacks waiting outside JavaScript
    eMicro,     \* event loop: microtask queue
    eMacro,     \* event loop: macrotask queue
    eOut,       \* event loop: console output
    tArg,       \* topic 04: the argument the functions are called with
    tOut,       \* topic 04: per function, the value it returned
    aScript,    \* apps: the script being run
    orders,     \* apps: the orders array of the end-to-end app
    calls,      \* apps: the createOrder calls made so far, finished or awaiting
    mainPc,     \* apps: where main (or the top-level script) stands
    mainVal,    \* apps: the order id main holds after its first call
    console,    \* apps: lines written with console.log
    tasks,      \* async demo: per top-level async call, the awaits still ahead
    gCall,      \* function demos: the call written in a script
    gOut,       \* function demos: what the call returned or logged
    sProg,      \* scripts 06 and 08: the top-level statements of the script
    sPc,        \* scripts 06 and 08: the statement to run next
    sOut,       \* scripts 06 and 08: lines written with console.log
    sStatus     \* scripts 06 and 08: "running", "finished" or "crashed"

routeVars == <<rCall, rStage, rNames, rVerdict, rOut>>

loopVars == <<eProg, eRun, eTimers, eMicro, eMacro, eOut>>

truthVars == <<tArg, tOut>>

appVars == <<aScript, orders, calls, mainPc, mainVal, console, tasks>>

callVars == <<gCall, gOut>>

scriptVars == <<sProg, sPc, sOut, sStatus>>

\* what the steps of one demo leave alone: the state of the other demos
exceptRoute == <<loopVars, truthVars, appVars, callVars, scriptVars>>

exceptLoop == <<routeVars, truthVars, appVars, callVars, scriptVars>>

exceptTruth == <<routeVars, loopVars, appVars, callVars, scriptVars>>

exceptApp == <<routeVars, loopVars, truthVars, callVars, scriptVars>>

exceptCall == <<routeVars, loopVars, truthVars, appVars, scriptVars>>

exceptScript == <<routeVars, loopVars, truthVars, appVars, callVars>>

vars == <<rCall, rStage, rNames, rVerdict, rOut, eProg, eRun, eTimers, eMicro, eMacro, eOut,
          tArg, tOut, aScript, orders, calls, mainPc, mainVal, console, tasks,
          gCall, gOut, sProg, sPc, sOut, sStatus>>

(***************************************************************************)
(* Bounds of the model.                                                    *)
(***************************************************************************)
MaxPathLen == 4

MaxStmts == 4

MaxAmount == 10

MaxItems == 2

ParseLimit == 200

MaxZeros == 2

(***************************************************************************)
(* Characters and strings.                                                 *)
(***************************************************************************)
Letters ==
    {"a","b","c","d","e","f","g","h","i","j","k","l","m",
     "n","o","p","q","r","s","t","u","v","w","x","y","z",
     "A","B","C","D","E","F","G","H","I","J","K","L","M",
     "N","O","P","Q","R","S","T","U","V","W","X","Y","Z"}

Digits == {"0","1","2","3","4","5","6","7","8","9"}

\* the character class [A-Za-z0-9_] of fillPath's regular expression
WordChars == Letters \cup Digits \cup {"_"}

\* characters encodeURIComponent leaves alone
UriUnreserved == Letters \cup Digits \cup {"-", "_", ".", "!", "~", "*", "'", "(", ")"}

\* a sequence of characters as one string
RECURSIVE Str(_)
Str(s) == IF Len(s) = 0 THEN "" ELSE Head(s) \o Str(Tail(s))

\* decimal digits of a natural number
DigitChar(d) ==
    CASE d = 0 -> "0" [] d = 1 -> "1" [] d = 2 -> "2" [] d = 3 -> "3" [] d = 4 -> "4"
      [] d = 5 -> "5" [] d = 6 -> "6" [] d = 7 -> "7" [] d = 8 -> "8" [] d = 9 -> "9"

RECURSIVE NatToString(_)
NatToString(n) ==
    IF n < 10 THEN DigitChar(n) ELSE NatToString(n \div 10) \o DigitChar(n % 10)

\* percent-encoding of the reserved ASCII characters
PercentCode(c) ==
    CASE c = "/" -> <<"%", "2", "F">>
      [] c = ":" -> <<"%", "3", "A">>
      [] c = " " -> <<"%", "2", "0">>
      [] c = "%" -> <<"%", "2", "5">>
      [] c = "?" -> <<"%", "3", "F">>
      [] c = "#" -> <<"%", "2", "3">>
      [] c = "&" -> <<"%", "2", "6">>
      [] c = "=" -> <<"%", "3", "D">>
      [] c = "+" -> <<"%", "2", "B">>
      [] c = "@" -> <<"%", "4", "0">>
      [] c = "," -> <<"%", "2", "C">>
      [] c = ";" -> <<"%", "3", "B">>
      [] c = "$" -> <<"%", "2", "4">>

EncodeChar(c) == IF c \in UriUnreserved THEN <<c>> ELSE PercentCode(c)

RECURSIVE EncodeURIComponent(_)
EncodeURIComponent(s) ==
    IF Len(s) = 0 THEN <<>>
    ELSE EncodeChar(Head(s)) \o EncodeURIComponent(Tail(s))

(***************************************************************************)
(* The route table.                                                        *)
(***************************************************************************)
RouteNames == {"getUser", "listUserPosts", "getUserPost", "createUserPost", "healthCheck"}

PathUsersId == <<"/","u","s","e","r","s","/",":","i","d">>

PathUserPosts ==
    <<"/","u","s","e","r","s","/",":","u","s","e","r","I","d","/","p","o","s","t","s">>

PathUserPost ==
    <<"/","u","s","e","r","s","/",":","u","s","e","r","I","d","/","p","o","s","t","s",
      "/",":","p","o","s","t","I","d">>

PathHealth == <<"/","h","e","a","l","t","h">>

routes ==
    [n \in RouteNames |->
        CASE n = "getUser"        -> [path |-> PathUsersId,   method |-> "GET"]
          [] n = "listUserPosts"  -> [path |-> PathUserPosts, method |-> "GET"]
          [] n = "getUserPost"    -> [path |-> PathUserPost,  method |-> "GET"]
          [] n = "createUserPost" -> [path |-> PathUserPosts, method |-> "POST"]
          [] n = "healthCheck"    -> [path |-> PathHealth,    method |-> "GET"]]

(***************************************************************************)
(* Type level: ExtractParamNames, PathParams, Exact, the argument type of  *)
(* makeUrl.  A template-literal pattern is matched the way the compiler    *)
(* infers it: each delimiter is found at its first occurrence after the    *)
(* previous one, with no backtracking.                                     *)
(***************************************************************************)
\* first index >= from at which s holds c, 0 when there is none
IndexOf(s, c, from) ==
    LET hits == {i \in from..Len(s) : s[i] = c}
    IN  IF hits = {} THEN 0 ELSE CHOOSE i \in hits : \A j \in hits : i <= j

\* Path extends `${string}:${infer Param}/${infer Rest}`
MatchSegment(path) ==
    LET colon == IndexOf(path, ":", 1)
        slash == IF colon = 0 THEN 0 ELSE IndexOf(path, "/", colon + 1)
    IN  IF colon = 0 \/ slash = 0
        THEN [ok |-> FALSE, param |-> <<>>, rest |-> <<>>]
        ELSE [ok    |-> TRUE,
              param |-> SubSeq(path, colon + 1, slash - 1),
              rest  |-> SubSeq(path, slash + 1, Len(path))]

\* Path extends `${string}:${infer Param}`
MatchTrailing(path) ==
    LET colon == IndexOf(path, ":", 1)
    IN  IF colon = 0
        THEN [ok |-> FALSE, param |-> <<>>]
        ELSE [ok |-> TRUE, param |-> SubSeq(path, colon + 1, Len(path))]

\* a plausible slip: the recursion on Rest is forgotten
ExtractFirstOnly(path) ==
    IF MatchSegment(path).ok THEN {MatchSegment(path).param}
    ELSE IF MatchTrailing(path).ok THEN {MatchTrailing(path).param}
    ELSE {}

RECURSIVE ExtractParamNames(_)
ExtractParamNames(path) ==
    IF MatchSegment(path).ok
    THEN {MatchSegment(path).param} \cup ExtractParamNames(MatchSegment(path).rest)
    ELSE IF MatchTrailing(path).ok THEN {MatchTrailing(path).param}
    ELSE {}

\* a plausible slip: Record<string, string> for a path without parameters
PathParamsLoose(path) ==
    IF ExtractParamNames(path) = {}
    THEN [kind |-> "Record", value |-> "string", keys |-> {}]
    ELSE [kind |-> "Mapped", value |-> "string", keys |-> ExtractParamNames(path)]

\* PathParams<Path>: Record<string, never>, or { [K in names]: string }
PathParams(path) ==
    IF ExtractParamNames(path) = {}
    THEN [kind |-> "Record", value |-> "never", keys |-> {}]
    ELSE [kind |-> "Mapped", value |-> "string", keys |-> ExtractParamNames(path)]

RouteParams(name) == PathParams(routes[name].path)

\* keyof T extends never: keyof of an index signature is string | number
KeyofExtendsNever(T) == T.kind = "Mapped" /\ T.keys = {}

\* a params object literal: own keys -> value, a value being a string or undefined
IsString(v) == v.def

\* obj is assignable to T (required keys present with values of the value type)
Assignable(obj, T) ==
    IF T.kind = "Record"
    THEN \A k \in DOMAIN obj : T.value = "string" /\ IsString(obj[k])
    ELSE \A k \in T.keys : k \in DOMAIN obj /\ IsString(obj[k])

\* Exact<P, Shape>: Exclude<keyof P, keyof Shape> extends never
Exact(obj, T) ==
    IF T.kind = "Record" THEN TRUE ELSE DOMAIN obj \subseteq T.keys

\* the type checker's verdict on fillPath(path, <object literal>)
FillPathAccepts(path, args) ==
    /\ args.given
    /\ Assignable(args.obj, PathParams(path))
    /\ Exact(args.obj, PathParams(path))       \* excess property check on a literal

\* the type checker's verdict on makeUrl(name, ...args)
MakeUrlAccepts(name, args) ==
    /\ name \in RouteNames
    /\ IF KeyofExtendsNever(RouteParams(name))
       THEN ~args.given \/ DOMAIN args.obj = {}
       ELSE /\ args.given
            /\ Assignable(args.obj, RouteParams(name))
            /\ Exact(args.obj, RouteParams(name))

(***************************************************************************)
(* Runtime: fillPath and makeUrl.                                          *)
(***************************************************************************)
Undefined == [def |-> FALSE, s |-> <<>>]

StringValue(s) == [def |-> TRUE, s |-> s]

\* (params as Record<string, unknown>)[key]
Lookup(obj, key) == IF key \in DOMAIN obj THEN obj[key] ELSE Undefined

\* end of the longest run of word characters that starts at index from
RECURSIVE WordRunEnd(_, _)
WordRunEnd(s, from) ==
    IF from + 1 <= Len(s) /\ s[from + 1] \in WordChars
    THEN WordRunEnd(s, from + 1)
    ELSE from

\* does /:([A-Za-z0-9_]+)/ match at index i
MatchesAt(s, i) == s[i] = ":" /\ i + 1 <= Len(s) /\ s[i + 1] \in WordChars

\* a plausible slip: the missing-value check is dropped and String(undefined) is used
ReplacerNoThrow(obj, key) ==
    IF Lookup(obj, key) = Undefined
    THEN [thrown |-> FALSE, text |-> <<"u","n","d","e","f","i","n","e","d">>, key |-> key]
    ELSE [thrown |-> FALSE, text |-> EncodeURIComponent(Lookup(obj, key).s), key |-> key]

\* the replacer callback of fillPath
Replacer(obj, key) ==
    IF Lookup(obj, key) = Undefined
    THEN [thrown |-> TRUE, text |-> <<>>, key |-> key]
    ELSE [thrown |-> FALSE, text |-> EncodeURIComponent(Lookup(obj, key).s), key |-> key]

\* String.prototype.replace with a global regular expression, from index i on
RECURSIVE ReplaceFrom(_, _, _)
ReplaceFrom(s, i, obj) ==
    IF i > Len(s) THEN [thrown |-> FALSE, text |-> <<>>, key |-> <<>>]
    ELSE IF MatchesAt(s, i)
    THEN LET e    == WordRunEnd(s, i + 1)
             r    == Replacer(obj, SubSeq(s, i + 1, e))
             tail == ReplaceFrom(s, e + 1, obj)
         IN  IF r.thrown THEN r
             ELSE IF tail.thrown THEN tail
             ELSE [thrown |-> FALSE, text |-> r.text \o tail.text, key |-> <<>>]
    ELSE LET tail == ReplaceFrom(s, i + 1, obj)
         IN  IF tail.thrown THEN tail
             ELSE [thrown |-> FALSE, text |-> <<s[i]>> \o tail.text, key |-> <<>>]

\* a plausible slip: the regular expression without the g flag
RECURSIVE ReplaceFirstFrom(_, _, _)
ReplaceFirstFrom(s, i, obj) ==
    IF i > Len(s) THEN [thrown |-> FALSE, text |-> <<>>, key |-> <<>>]
    ELSE IF MatchesAt(s, i)
    THEN LET e == WordRunEnd(s, i + 1)
             r == Replacer(obj, SubSeq(s, i + 1, e))
         IN  IF r.thrown THEN r
             ELSE [thrown |-> FALSE,
                   text   |-> r.text \o SubSeq(s, e + 1, Len(s)),
                   key    |-> <<>>]
    ELSE LET tail == ReplaceFirstFrom(s, i + 1, obj)
         IN  IF tail.thrown THEN tail
             ELSE [thrown |-> FALSE, text |-> <<s[i]>> \o tail.text, key |-> <<>>]

ReplaceFirst(path, obj) == ReplaceFirstFrom(path, 1, obj)

ReplaceAll(path, obj) == ReplaceFrom(path, 1, obj)

\* fillPath(path, params)
fillPath(path, obj) ==
    LET r == ReplaceAll(path, obj)
    IN  IF r.thrown
        THEN [kind |-> "throw",
              text |-> "Missing value for param '" \o Str(r.key) \o "'"]
        ELSE [kind |-> "ok", text |-> Str(r.text)]

\* makeUrl(name, ...args): params = args[0] ?? {}
makeUrl(name, args) ==
    IF name \notin RouteNames
    THEN [kind |-> "throw",
          text |-> "TypeError: Cannot read properties of undefined (reading 'path')"]
    ELSE fillPath(routes[name].path, IF args.given THEN args.obj ELSE <<>>)

(***************************************************************************)
(* The calls of the route demo.                                            *)
(***************************************************************************)
Alphabet == {"/", ":", "a", "b", "-"}

Paths == UNION {[1..n -> Alphabet] : n \in 0..MaxPathLen}

ParamValues == {Undefined, StringValue(<<"1","2","3">>), StringValue(<<"a","/",":","b">>)}

ExtraKey == <<"e","x","t","r","a">>

\* keys of the runtime lookups of a path, by a direct description of the matches
RuntimeKeys(path) ==
    {SubSeq(path, i + 1, WordRunEnd(path, i + 1)) :
        i \in {j \in 1..Len(path) : MatchesAt(path, j)}}

CandidateKeys(path) == ExtractParamNames(path) \cup RuntimeKeys(path) \cup {ExtraKey}

ObjectsOver(keys) == UNION {[K -> ParamValues] : K \in SUBSET keys}

ArgsOver(keys) ==
    {[given |-> TRUE, obj |-> o] : o \in ObjectsOver(keys)}
        \cup {[given |-> FALSE, obj |-> <<>>]}

\* a direct call fillPath(path, { ... })
FillPathCall(p, a) == [fn |-> "fillPath", name |-> "", path |-> p, args |-> a]

\* a call makeUrl(name, { ... }) or makeUrl(name)
MakeUrlCall(n, a) == [fn |-> "makeUrl", name |-> n, path |-> routes[n].path, args |-> a]

\* bad4: a route name that is not in the table
BadNameCall ==
    [fn |-> "makeUrl", name |-> "getUserPosts", path |-> <<>>,
     args |-> [given |-> TRUE,
               obj |-> [k \in {<<"u","s","e","r","I","d">>} |->
                           StringValue(<<"a","b","c">>)]]]

NoOut == [kind |-> "none", text |-> ""]

RouteIdle ==
    /\ rCall = [fn |-> "none", name |-> "", path |-> <<>>,
                args |-> [given |-> FALSE, obj |-> <<>>]]
    /\ rStage = "idle"
    /\ rNames = {}
    /\ rVerdict = "none"
    /\ rOut = NoOut

LoopIdle ==
    /\ eProg = <<>>
    /\ eRun = <<>>
    /\ eTimers = <<>>
    /\ eMicro = <<>>
    /\ eMacro = <<>>
    /\ eOut = <<>>

TruthIdle ==
    /\ tArg = [t |-> "undefined", n |-> 0, s |-> ""]
    /\ tOut = <<>>

AppIdle ==
    /\ aScript = "none"
    /\ orders = <<>>
    /\ calls = <<>>
    /\ mainPc = "idle"
    /\ mainVal = 0
    /\ console = <<>>
    /\ tasks = <<>>

NoCall == [fn |-> "none", args |-> <<>>]

NotReturned == [done |-> FALSE, js |-> <<>>, ts |-> <<>>]

CallIdle ==
    /\ gCall = NoCall
    /\ gOut = NotReturned

ScriptIdle ==
    /\ sProg = <<>>
    /\ sPc = 0
    /\ sOut = <<>>
    /\ sStatus = "idle"

InitRoute ==
    /\ LoopIdle
    /\ TruthIdle
    /\ AppIdle
    /\ CallIdle
    /\ ScriptIdle
    /\ \/ \E p \in Paths : \E a \in ArgsOver(CandidateKeys(p)) :
              a.given /\ rCall = FillPathCall(p, a)
       \/ \E n \in RouteNames : \E a \in ArgsOver(CandidateKeys(routes[n].path)) :
              rCall = MakeUrlCall(n, a)
       \/ rCall = BadNameCall
    /\ rStage = "written"
    /\ rNames = {}
    /\ rVerdict = "none"
    /\ rOut = NoOut

\* the type checker derives the parameter names and accepts or rejects the call
Compile ==
    /\ rStage = "written"
    /\ rStage' = "compiled"
    /\ rNames' = IF rCall.fn = "makeUrl" /\ rCall.name \notin RouteNames
                 THEN {} ELSE ExtractParamNames(rCall.path)
    /\ rVerdict' = IF rCall.fn = "makeUrl"
                   THEN IF MakeUrlAccepts(rCall.name, rCall.args)
                        THEN "accepted" ELSE "rejected"
                   ELSE IF FillPathAccepts(rCall.path, rCall.args)
                        THEN "accepted" ELSE "rejected"
    /\ UNCHANGED <<rCall, rOut>>
    /\ UNCHANGED exceptRoute

\* the emitted JavaScript runs fillPath(path, params)
RunFillPath ==
    /\ rStage = "compiled"
    /\ rCall.fn = "fillPath"
    /\ rStage' = "ran"
    /\ rOut' = fillPath(rCall.path, rCall.args.obj)
    /\ UNCHANGED <<rCall, rNames, rVerdict>>
    /\ UNCHANGED exceptRoute

\* the emitted JavaScript runs makeUrl(name, params)
RunMakeUrl ==
    /\ rStage = "compiled"
    /\ rCall.fn = "makeUrl"
    /\ rStage' = "ran"
    /\ rOut' = makeUrl(rCall.name, rCall.args)
    /\ UNCHANGED <<rCall, rNames, rVerdict>>
    /\ UNCHANGED exceptRoute

NextRoute == Compile \/ RunFillPath \/ RunMakeUrl

SpecRoute == InitRoute /\ [][NextRoute]_vars

(***************************************************************************)
(* Claims about the route demo (checked under SpecRoute).                  *)
(***************************************************************************)
\* the call reaches fillPath (makeUrl with a route of the table, or fillPath itself)
ReachesFillPath ==
    rCall.fn = "fillPath" \/ (rCall.fn = "makeUrl" /\ rCall.name \in RouteNames)

\* the params object fillPath receives
GivenParams == IF rCall.args.given THEN rCall.args.obj ELSE <<>>

\* the placeholders of a path, described position by position
PlaceholderStarts(path) ==
    {i \in 1..Len(path) : path[i] = ":" /\ i < Len(path) /\ path[i + 1] \in WordChars}

PlaceholderEnd(path, i) ==
    CHOOSE j \in (i + 1)..Len(path) :
        /\ \A k \in (i + 1)..j : path[k] \in WordChars
        /\ (j = Len(path) \/ path[j + 1] \notin WordChars)

PlaceholderKey(path, i) == SubSeq(path, i + 1, PlaceholderEnd(path, i))

MissingStarts(path, obj) ==
    {i \in PlaceholderStarts(path) : Lookup(obj, PlaceholderKey(path, i)) = Undefined}

LeastOf(S) == CHOOSE i \in S : \A j \in S : i <= j

RestrictTo(obj, keys) == [k \in (DOMAIN obj) \cap keys |-> obj[k]]

KeyUserId == <<"u","s","e","r","I","d">>

KeyPostId == <<"p","o","s","t","I","d">>

KeyId == <<"i","d">>

\* C1: fillPath throws "Missing value for param '<key>'" exactly when some
\* placeholder of the path has an undefined value, naming the leftmost such
\* placeholder; keys of params that match no placeholder never change the
\* outcome (makeUrl('getUserPost', {userId}) throws for 'postId' and
\* makeUrl('getUser', {id, extra}) succeeds).
C1_MissingParamThrows ==
    (rStage = "ran" /\ ReachesFillPath) =>
        LET path    == rCall.path
            obj     == GivenParams
            missing == MissingStarts(path, obj)
            used    == {PlaceholderKey(path, i) : i \in PlaceholderStarts(path)}
        IN  /\ rOut.kind \in {"ok", "throw"}
            /\ (rOut.kind = "throw") <=> (missing # {})
            /\ missing # {} =>
                 rOut.text = "Missing value for param '"
                                \o Str(PlaceholderKey(path, LeastOf(missing))) \o "'"
            /\ rOut = fillPath(path, RestrictTo(obj, used))
            /\ (/\ rCall.name = "getUserPost"
                /\ DOMAIN obj = {KeyUserId}
                /\ obj[KeyUserId].def)
                 => rOut = [kind |-> "throw", text |-> "Missing value for param 'postId'"]
            /\ (/\ rCall.name = "getUser"
                /\ DOMAIN obj = {KeyId, ExtraKey}
                /\ obj[KeyId].def)
                 => rOut.kind = "ok"

C1_Witness ==
    /\ rStage = "ran"
    /\ rCall.name = "getUserPost"
    /\ rCall.args.given
    /\ DOMAIN rCall.args.obj = {KeyUserId}
    /\ rCall.args.obj[KeyUserId].def
    /\ rOut = [kind |-> "throw", text |-> "Missing value for param 'postId'"]

\* what one position of the path contributes to the result
Piece(path, obj, i) ==
    IF i \in PlaceholderStarts(path)
    THEN EncodeURIComponent(Lookup(obj, PlaceholderKey(path, i)).s)
    ELSE IF \E s \in PlaceholderStarts(path) : s < i /\ i <= PlaceholderEnd(path, s)
    THEN <<>>
    ELSE <<path[i]>>

\* pieces i..Len(path), joined from the right
RECURSIVE JoinPieces(_, _, _)
JoinPieces(path, obj, n) ==
    IF n = 0 THEN <<>> ELSE JoinPieces(path, obj, n - 1) \o Piece(path, obj, n)

\* C2: when every placeholder has a defined value, fillPath returns the path
\* with each placeholder replaced by the URI-encoded value and every other
\* character unchanged; a path without placeholders is returned unchanged
\* (makeUrl('getUser', {id: '123'}) = '/users/123', makeUrl('healthCheck', {})
\* = '/health').
C2_Substitution ==
    (rStage = "ran" /\ ReachesFillPath /\ MissingStarts(rCall.path, GivenParams) = {}) =>
        /\ rOut = [kind |-> "ok",
                   text |-> Str(JoinPieces(rCall.path, GivenParams, Len(rCall.path)))]
        /\ PlaceholderStarts(rCall.path) = {} => rOut.text = Str(rCall.path)
        /\ (/\ rCall.name = "getUser"
            /\ DOMAIN GivenParams = {KeyId}
            /\ GivenParams[KeyId] = StringValue(<<"1","2","3">>))
             => rOut.text = "/users/123"
        /\ (rCall.name = "healthCheck" /\ DOMAIN GivenParams = {})
             => rOut.text = "/health"

C2_Witness ==
    /\ rStage = "ran"
    /\ rCall.name = "getUserPost"
    /\ DOMAIN GivenParams = {KeyUserId, KeyPostId}
    /\ rOut = [kind |-> "ok", text |-> "/users/123/posts/a%2F%3Ab"]

\* C3: types guarantee that params has exactly the keys the path requires:
\* the names derived by ExtractParamNames are the keys fillPath looks up, so
\* a params object whose keys are exactly the type-derived names (each with a
\* string value) never makes fillPath throw.
C3_TypesMatchRuntime ==
    (/\ rStage = "ran"
     /\ ReachesFillPath
     /\ DOMAIN GivenParams = rNames
     /\ \A k \in rNames : GivenParams[k].def)
        => rOut.kind = "ok"

\* C4: the type-level parser yields the documented names for every route:
\* {id}, {userId}, {userId, postId} (first ':userId/', then the trailing
\* ':postId' of 'posts/:postId'), and the empty set for '/health'.
C4_RouteParamNames ==
    /\ (rStage # "written" /\ rCall.fn = "makeUrl" /\ rCall.name \in RouteNames) =>
          rNames = CASE rCall.name = "getUser"        -> {KeyId}
                     [] rCall.name = "listUserPosts"  -> {KeyUserId}
                     [] rCall.name = "createUserPost" -> {KeyUserId}
                     [] rCall.name = "getUserPost"    -> {KeyUserId, KeyPostId}
                     [] rCall.name = "healthCheck"    -> {}
    /\ (rStage # "written" /\ rCall.name = "getUserPost") =>
          LET first == MatchSegment(rCall.path)
          IN  /\ first.ok
              /\ Str(first.param) = "userId"
              /\ Str(first.rest) = "posts/:postId"
              /\ ~MatchSegment(first.rest).ok
              /\ Str(MatchTrailing(first.rest).param) = "postId"

C4_Witness ==
    /\ rStage = "compiled"
    /\ rCall.name = "getUserPost"
    /\ rNames = {KeyUserId, KeyPostId}

\* C5: a path without placeholders maps to an empty parameter set that
\* rejects extra keys: for 'healthCheck' an accepted call passes an empty
\* object (or nothing), the empty object is accepted, and a call that
\* supplies any key is rejected.
C5_NoParamsRejectsKeys ==
    (rStage # "written" /\ rCall.fn = "makeUrl" /\ rCall.name = "healthCheck") =>
        /\ rNames = {}
        /\ rVerdict = "accepted" => (~rCall.args.given \/ DOMAIN rCall.args.obj = {})
        /\ (rCall.args.given /\ DOMAIN rCall.args.obj = {}) => rVerdict = "accepted"
        /\ (rCall.args.given /\ DOMAIN rCall.args.obj # {}) => rVerdict = "rejected"

C5_Witness ==
    /\ rStage = "compiled"
    /\ rCall.name = "healthCheck"
    /\ rCall.args.given
    /\ DOMAIN rCall.args.obj = {ExtraKey}
    /\ rCall.args.obj[ExtraKey].def
    /\ rVerdict = "rejected"

(***************************************************************************)
(* The event loop (JavaScript crash course): one call stack, a microtask   *)
(* queue for promise reactions and a macrotask queue for timer callbacks.  *)
(* A script is a sequence of statements log(l), setTimeout(cb, 0) and      *)
(* Promise.resolve().then(cb); a callback logs its label and may itself    *)
(* queue one more callback.                                                *)
(***************************************************************************)
LogStmt(l) == [op |-> "log", label |-> l, spawn |-> "none"]

\* the statements a callback runs: its log, then what it queues
CallbackBody(cb) ==
    <<LogStmt(cb.label)>> \o
        (CASE cb.spawn = "none"  -> <<>>
           [] cb.spawn = "micro" ->
                <<[op |-> "then", label |-> cb.label \o "m", spawn |-> "none"]>>
           [] cb.spawn = "macro" ->
                <<[op |-> "setTimeout", label |-> cb.label \o "t", spawn |-> "none"]>>)

\* the callback a setTimeout / then statement registers
CallbackOf(stmt) == [label |-> stmt.label, spawn |-> stmt.spawn]

StmtKinds ==
    {[op |-> "log", spawn |-> "none"]}
        \cup {[op |-> o, spawn |-> s] :
                o \in {"setTimeout", "then"}, s \in {"none", "micro", "macro"}}

\* scripts of n statements, the i-th labelled i
Scripts(n) ==
    {[i \in 1..n |-> [op |-> k[i].op, label |-> NatToString(i), spawn |-> k[i].spawn]] :
        k \in [1..n -> StmtKinds]}

\* console.log("1"); setTimeout(() => console.log("2"), 0);
\* Promise.resolve().then(() => console.log("3")); console.log("4");
DocSnippet ==
    <<LogStmt("1"),
      [op |-> "setTimeout", label |-> "2", spawn |-> "none"],
      [op |-> "then", label |-> "3", spawn |-> "none"],
      LogStmt("4")>>

InitLoop ==
    /\ RouteIdle
    /\ TruthIdle
    /\ AppIdle
    /\ CallIdle
    /\ ScriptIdle
    /\ \E n \in 1..MaxStmts : eProg \in Scripts(n)
    /\ eRun = eProg
    /\ eTimers = <<>>
    /\ eMicro = <<>>
    /\ eMacro = <<>>
    /\ eOut = <<>>

\* the call stack runs the next statement of the current task
RunStatement ==
    /\ eRun # <<>>
    /\ eRun' = Tail(eRun)
    /\ LET stmt == Head(eRun)
       IN  /\ eOut' = IF stmt.op = "log" THEN Append(eOut, stmt.label) ELSE eOut
           /\ eTimers' = IF stmt.op = "setTimeout"
                         THEN Append(eTimers, CallbackOf(stmt)) ELSE eTimers
           /\ eMicro' = IF stmt.op = "then"
                        THEN Append(eMicro, CallbackOf(stmt)) ELSE eMicro
    /\ UNCHANGED <<eProg, eMacro>>
    /\ UNCHANGED exceptLoop

\* the runtime, outside JavaScript, finds a timer expired and queues its callback
TimerExpires ==
    /\ eTimers # <<>>
    /\ eMacro' = Append(eMacro, Head(eTimers))
    /\ eTimers' = Tail(eTimers)
    /\ UNCHANGED <<eProg, eRun, eMicro, eOut>>
    /\ UNCHANGED exceptLoop

\* the call stack is empty: the next microtask is taken
RunMicrotask ==
    /\ eRun = <<>>
    /\ eMicro # <<>>
    /\ eRun' = CallbackBody(Head(eMicro))
    /\ eMicro' = Tail(eMicro)
    /\ UNCHANGED <<eProg, eTimers, eMacro, eOut>>
    /\ UNCHANGED exceptLoop

\* a plausible slip: timers are served without draining the microtask queue
RunMacrotaskFirst ==
    /\ eRun = <<>>
    /\ eMacro # <<>>
    /\ eRun' = CallbackBody(Head(eMacro))
    /\ eMacro' = Tail(eMacro)
    /\ UNCHANGED <<eProg, eTimers, eMicro, eOut>>
    /\ UNCHANGED exceptLoop

\* the call stack and the microtask queue are empty: the next macrotask is taken
RunMacrotask ==
    /\ eRun = <<>>
    /\ eMicro = <<>>
    /\ eMacro # <<>>
    /\ eRun' = CallbackBody(Head(eMacro))
    /\ eMacro' = Tail(eMacro)
    /\ UNCHANGED <<eProg, eTimers, eMicro, eOut>>
    /\ UNCHANGED exceptLoop

NextLoop == RunStatement \/ TimerExpires \/ RunMicrotask \/ RunMacrotask

SpecLoop == InitLoop /\ [][NextLoop]_vars

(***************************************************************************)
(* Claims about the event loop (checked under SpecLoop).                   *)
(***************************************************************************)
LoopQuiet == eRun = <<>> /\ eTimers = <<>> /\ eMicro = <<>> /\ eMacro = <<>>

IsPrefix(s, u) == Len(s) <= Len(u) /\ s = SubSeq(u, 1, Len(s))

\* the labels a script prints synchronously, in order
SyncLabels(script) ==
    LET logs == SelectSeq(script, LAMBDA st : st.op = "log")
    IN  [i \in 1..Len(logs) |-> logs[i].label]

\* C7: synchronous code runs to completion before any queued callback, and
\* every queued microtask runs before the next macrotask; the snippet
\* log 1, setTimeout(log 2, 0), Promise.resolve().then(log 3), log 4 can only
\* print 1, 4, 3, 2.
C7_EventLoopOrder ==
    /\ [][/\ Len(eMicro') < Len(eMicro) => eRun = <<>>
          /\ Len(eMacro') < Len(eMacro) => (eRun = <<>> /\ eMicro = <<>>)]_vars
    /\ [](IsPrefix(eOut, SyncLabels(eProg)) \/ IsPrefix(SyncLabels(eProg), eOut))
    /\ [](eProg = DocSnippet => IsPrefix(eOut, <<"1", "4", "3", "2">>))
    /\ []((eProg = DocSnippet /\ LoopQuiet) => eOut = <<"1", "4", "3", "2">>)

C7_Witness == eProg = DocSnippet /\ LoopQuiet /\ eOut = <<"1", "4", "3", "2">>

(***************************************************************************)
(* Topic 04, control flow and truthiness: getDiscount and greet in the     *)
(* JavaScript and the TypeScript file.  A JavaScript value is a record     *)
(* [t, n, s]: its type tag, its number and its string.                     *)
(***************************************************************************)
Null == [t |-> "null", n |-> 0, s |-> ""]

Undef == [t |-> "undefined", n |-> 0, s |-> ""]

NaN == [t |-> "nan", n |-> 0, s |-> ""]

Num(n) == [t |-> "number", n |-> n, s |-> ""]

Text(s) == [t |-> "string", n |-> 0, s |-> s]

Bool(b) == [t |-> "boolean", n |-> IF b THEN 1 ELSE 0, s |-> ""]

\* ToBoolean: false, 0, "", null, undefined and NaN are falsy
Truthy(v) ==
    CASE v.t = "number"  -> v.n # 0
      [] v.t = "string"  -> v.s # ""
      [] v.t = "boolean" -> v.n = 1
      [] v.t \in {"object", "array"} -> TRUE
      [] OTHER           -> FALSE

\* ToString, as a template literal applies it
ToStringJs(v) ==
    CASE v.t = "number"    -> IF v.n < 0 THEN "-" \o NatToString(-v.n) ELSE NatToString(v.n)
      [] v.t = "nan"       -> "NaN"
      [] v.t = "string"    -> v.s
      [] v.t = "boolean"   -> IF v.n = 1 THEN "true" ELSE "false"
      [] v.t = "null"      -> "null"
      [] v.t = "undefined" -> "undefined"

\* a ?? b
Nullish(a, b) == IF a.t \in {"null", "undefined"} THEN b ELSE a

\* a || b
OrElse(a, b) == IF Truthy(a) THEN a ELSE b

\* a plausible slip: the TypeScript getDiscount keeps the truthiness test
getDiscountTsFalsy(amount) ==
    IF ~Truthy(amount) THEN "No discount applied"
    ELSE "Discount: $" \o ToStringJs(amount)

\* TypeScript: function getDiscount(amount: number | null): string
getDiscountTs(amount) ==
    IF amount = Null THEN "No discount applied"
    ELSE "Discount: $" \o ToStringJs(amount)

\* JavaScript: function getDiscount(amount)
getDiscountJs(amount) ==
    IF ~Truthy(amount) THEN "No discount applied"
    ELSE "Discount: $" \o ToStringJs(amount)

\* a plausible slip: || where ?? was meant
greetTsOr(name) == "Hello, " \o ToStringJs(OrElse(name, Text("Guest"))) \o "!"

\* TypeScript: function greet(name: string | null): string
greetTs(name) == "Hello, " \o ToStringJs(Nullish(name, Text("Guest"))) \o "!"

\* TypeScript: function greetWithOr(name: string | null): string
greetWithOr(name) == "Hello, " \o ToStringJs(OrElse(name, Text("Guest"))) \o "!"

\* JavaScript: function greet(name)
greetJs(name) == "Hello, " \o ToStringJs(OrElse(name, Text("Guest"))) \o "!"

TruthFns == {"getDiscountTs", "getDiscountJs", "greetTs", "greetWithOr", "greetJs"}

Names == {"", "Alice", "Guest", "0"}

JsValues ==
    {Null, Undef, NaN, Bool(TRUE), Bool(FALSE)}
        \cup {Num(n) : n \in (-MaxAmount)..MaxAmount}
        \cup {Text(s) : s \in Names}

\* number | null
IsNumberOrNull(v) == v.t \in {"number", "nan", "null"}

\* string | null
IsStringOrNull(v) == v.t \in {"string", "null"}

InitTruth ==
    /\ RouteIdle
    /\ LoopIdle
    /\ AppIdle
    /\ CallIdle
    /\ ScriptIdle
    /\ tArg \in JsValues
    /\ tOut = <<>>

\* record the value a function returned
Returned(fn, text) ==
    /\ fn \notin DOMAIN tOut
    /\ tOut' = [f \in (DOMAIN tOut) \cup {fn} |-> IF f = fn THEN text ELSE tOut[f]]
    /\ UNCHANGED tArg
    /\ UNCHANGED exceptTruth

CallGetDiscountTs == IsNumberOrNull(tArg) /\ Returned("getDiscountTs", getDiscountTs(tArg))

CallGetDiscountJs == tArg \in JsValues /\ Returned("getDiscountJs", getDiscountJs(tArg))

CallGreetTs == IsStringOrNull(tArg) /\ Returned("greetTs", greetTs(tArg))

CallGreetWithOr == IsStringOrNull(tArg) /\ Returned("greetWithOr", greetWithOr(tArg))

CallGreetJs == tArg \in JsValues /\ Returned("greetJs", greetJs(tArg))

NextTruth ==
    CallGetDiscountTs \/ CallGetDiscountJs \/ CallGreetTs \/ CallGreetWithOr \/ CallGreetJs

SpecTruth == InitTruth /\ [][NextTruth]_vars

(***************************************************************************)
(* Claims about topic 04 (checked under SpecTruth).                        *)
(***************************************************************************)
Ran(fn) == fn \in DOMAIN tOut

\* C9 as stated: the TypeScript getDiscount returns 'No discount applied'
\* iff amount is null (getDiscount(0) = 'Discount: $0'); the JavaScript one
\* returns it for every falsy amount (getDiscount(0) included); for every
\* non-zero number both return 'Discount: $<amount>'.
C9_Original ==
    /\ Ran("getDiscountTs") =>
         /\ (tOut["getDiscountTs"] = "No discount applied") <=> (tArg = Null)
         /\ tArg = Num(0) => tOut["getDiscountTs"] = "Discount: $0"
    /\ Ran("getDiscountJs") =>
         /\ ~Truthy(tArg) => tOut["getDiscountJs"] = "No discount applied"
    /\ (Ran("getDiscountTs") /\ Ran("getDiscountJs") /\ tArg.t \in {"number", "nan"}
          /\ tArg # Num(0)) =>
         /\ tOut["getDiscountTs"] = "Discount: $" \o ToStringJs(tArg)
         /\ tOut["getDiscountJs"] = "Discount: $" \o ToStringJs(tArg)

\* C9 (amended): as stated, but the numbers on which both variants return
\* 'Discount: $<amount>' are the non-zero numbers other than NaN; for NaN the
\* TypeScript variant returns 'Discount: $NaN' and the JavaScript variant
\* 'No discount applied'.
C9_Discount ==
    /\ Ran("getDiscountTs") =>
         /\ (tOut["getDiscountTs"] = "No discount applied") <=> (tArg = Null)
         /\ tArg = Num(0) => tOut["getDiscountTs"] = "Discount: $0"
         /\ tArg = NaN => tOut["getDiscountTs"] = "Discount: $NaN"
    /\ Ran("getDiscountJs") =>
         /\ ~Truthy(tArg) => tOut["getDiscountJs"] = "No discount applied"
    /\ (Ran("getDiscountTs") /\ Ran("getDiscountJs") /\ tArg.t = "number"
          /\ tArg # Num(0)) =>
         /\ tOut["getDiscountTs"] = "Discount: $" \o ToStringJs(tArg)
         /\ tOut["getDiscountJs"] = "Discount: $" \o ToStringJs(tArg)

C9_Witness ==
    /\ tArg = Num(0)
    /\ Ran("getDiscountTs") /\ tOut["getDiscountTs"] = "Discount: $0"
    /\ Ran("getDiscountJs") /\ tOut["getDiscountJs"] = "No discount applied"

\* C10 as stated: the TypeScript greet returns 'Hello, Guest!' iff name is
\* null and keeps the empty string (greet('') = 'Hello, !'); greetWithOr and
\* the JavaScript greet return 'Hello, Guest!' for every falsy name; greet
\* and the JavaScript greet agree exactly on non-empty strings and null.
C10_Original ==
    /\ Ran("greetTs") =>
         /\ (tOut["greetTs"] = "Hello, Guest!") <=> (tArg = Null)
         /\ tArg = Text("") => tOut["greetTs"] = "Hello, !"
    /\ (Ran("greetWithOr") /\ ~Truthy(tArg)) => tOut["greetWithOr"] = "Hello, Guest!"
    /\ (Ran("greetJs") /\ ~Truthy(tArg)) => tOut["greetJs"] = "Hello, Guest!"
    /\ (Ran("greetTs") /\ Ran("greetJs")) =>
         ((tOut["greetTs"] = tOut["greetJs"]) <=> (tArg # Text("")))

\* C10 (amended): as stated, but the TypeScript greet returns 'Hello, Guest!'
\* iff name is null or name is the string 'Guest' itself.
C10_Greet ==
    /\ Ran("greetTs") =>
         /\ (tOut["greetTs"] = "Hello, Guest!") <=> (tArg \in {Null, Text("Guest")})
         /\ tArg = Text("") => tOut["greetTs"] = "Hello, !"
    /\ (Ran("greetWithOr") /\ ~Truthy(tArg)) => tOut["greetWithOr"] = "Hello, Guest!"
    /\ (Ran("greetJs") /\ ~Truthy(tArg)) => tOut["greetJs"] = "Hello, Guest!"
    /\ (Ran("greetTs") /\ Ran("greetJs")) =>
         ((tOut["greetTs"] = tOut["greetJs"]) <=> (tArg # Text("")))

C10_Witness ==
    /\ tArg = Text("")
    /\ Ran("greetTs") /\ tOut["greetTs"] = "Hello, !"
    /\ Ran("greetJs") /\ tOut["greetJs"] = "Hello, Guest!"
    /\ Ran("greetWithOr") /\ tOut["greetWithOr"] = "Hello, Guest!"

(***************************************************************************)
(* The end-to-end order apps (12-end-to-end, JavaScript and TypeScript).   *)
(* Money is an exact decimal counted in units of 1/100000 dollar, so that  *)
(* 10% and 8% of a sum of prices are whole numbers of units; the rounding  *)
(* of binary floating point is not modelled.  The createdAt field of an    *)
(* order (new Date()) is left out.  An await is the only place where a     *)
(* call can be suspended, so each step runs from one await to the next.    *)
(***************************************************************************)
MoneyScale == 100000

\* a === b
StrictEq(a, b) == a.t = b.t /\ a.t # "nan" /\ a = b

RECURSIVE Zeros(_)
Zeros(z) == IF z = 0 THEN "" ELSE "0" \o Zeros(z - 1)

\* the numbers a string of decimal digits denotes, leading zeros allowed
\* (at most one number; none when the string is not of that form)
DigitsValue(s) ==
    {n \in 0..ParseLimit : \E z \in 0..MaxZeros : Zeros(z) \o NatToString(n) = s}

\* ToNumber: strings of digits are read as numbers, "" as 0, other strings give
\* NaN (signs, fractions, exponents and blanks are not among the inputs)
ToNumber(v) ==
    CASE v.t = "number"    -> v
      [] v.t = "nan"       -> NaN
      [] v.t = "null"      -> Num(0)
      [] v.t = "undefined" -> NaN
      [] v.t = "boolean"   -> Num(v.n)
      [] v.t = "string"    ->
            IF v.s = "" THEN Num(0)
            ELSE IF DigitsValue(v.s) # {}
                 THEN Num(CHOOSE n \in DigitsValue(v.s) : TRUE)
                 ELSE NaN

\* a * b, a + b, a - b on numbers (NaN is contagious); + is only used on numbers
MulJs(a, b) ==
    IF ToNumber(a).t = "number" /\ ToNumber(b).t = "number"
    THEN Num(ToNumber(a).n * ToNumber(b).n) ELSE NaN

AddJs(a, b) == IF a.t = "number" /\ b.t = "number" THEN Num(a.n + b.n) ELSE NaN

SubJs(a, b) ==
    IF ToNumber(a).t = "number" /\ ToNumber(b).t = "number"
    THEN Num(ToNumber(a).n - ToNumber(b).n) ELSE NaN

\* a * (num / den) for the decimal constants 0.1, 0.2 and 0.08
ScaleJs(a, num, den) == IF a.t = "number" THEN Num((a.n * num) \div den) ELSE NaN

RECURSIVE Pow10(_)
Pow10(d) == IF d = 0 THEN 1 ELSE 10 * Pow10(d - 1)

\* the decimal digits of n, padded with zeros on the left to d digits
RECURSIVE PadDigits(_, _)
PadDigits(n, d) == IF d = 0 THEN "" ELSE PadDigits(n \div 10, d - 1) \o DigitChar(n % 10)

\* Number.prototype.toFixed(d) of an amount: the nearest number with d decimals,
\* the larger one on a tie; the sign is that of the amount
ToFixed(v, d) ==
    IF v.t # "number" THEN "NaN"
    ELSE LET mag     == IF v.n < 0 THEN -v.n ELSE v.n
             rounded == IF Pow10(d) <= MoneyScale
                        THEN (mag + (MoneyScale \div Pow10(d)) \div 2)
                                 \div (MoneyScale \div Pow10(d))
                        ELSE mag * (Pow10(d) \div MoneyScale)
         IN  (IF v.n < 0 THEN "-" ELSE "")
                \o NatToString(rounded \div Pow10(d))
                \o (IF d = 0 THEN "" ELSE "." \o PadDigits(rounded % Pow10(d), d))

\* toFixed(2) of an amount of money
ToFixed2(v) == ToFixed(v, 2)

\* the "database"
users ==
    <<[id |-> 1, name |-> "Alice", email |-> "alice@example.com", tier |-> "premium"],
      [id |-> 2, name |-> "Bob",   email |-> "bob@example.com",   tier |-> "basic"],
      [id |-> 3, name |-> "Carol", email |-> "carol@example.com", tier |-> "premium"]>>

products ==
    <<[id |-> 101, name |-> "Widget", price |-> 2999000, inStock |-> TRUE],
      [id |-> 102, name |-> "Gadget", price |-> 4999000, inStock |-> TRUE],
      [id |-> 103, name |-> "Gizmo",  price |-> 1999000, inStock |-> FALSE]>>

\* users.find((u) => u.id === userId): the index of the user, 0 when there is none
fetchUser(userId) ==
    LET hits == {k \in 1..Len(users) : StrictEq(Num(users[k].id), userId)}
    IN  IF hits = {} THEN 0 ELSE CHOOSE k \in hits : \A j \in hits : k <= j

\* products.find((p) => p.id === productId)
fetchProduct(productId) ==
    LET hits == {k \in 1..Len(products) : StrictEq(Num(products[k].id), productId)}
    IN  IF hits = {} THEN 0 ELSE CHOOSE k \in hits : \A j \in hits : k <= j

\* reading a property of a user object: a missing property is undefined
UserProp(u, name) ==
    IF name = "id" THEN Num(users[u].id)
    ELSE IF name \in DOMAIN users[u] THEN Text(users[u][name])
    ELSE Undef

\* a plausible slip: the two rates are exchanged
calculateDiscountTsSwapped(u, subtotal) ==
    IF StrictEq(UserProp(u, "tier"), Text("premium")) THEN ScaleJs(subtotal, 2, 10)
    ELSE IF StrictEq(UserProp(u, "tier"), Text("enterprise")) THEN ScaleJs(subtotal, 1, 10)
    ELSE Num(0)

\* TypeScript calculateDiscount
calculateDiscountTs(u, subtotal) ==
    IF StrictEq(UserProp(u, "tier"), Text("premium")) THEN ScaleJs(subtotal, 1, 10)
    ELSE IF StrictEq(UserProp(u, "tier"), Text("enterprise")) THEN ScaleJs(subtotal, 2, 10)
    ELSE Num(0)

\* JavaScript calculateDiscount: reads user.teir
calculateDiscountJs(u, subtotal) ==
    IF StrictEq(UserProp(u, "teir"), Text("premium")) THEN ScaleJs(subtotal, 1, 10)
    ELSE Num(0)

calculateTax(subtotal) == ScaleJs(subtotal, 8, 100)

\* the promise of a createOrder call
Pending == [state |-> "pending", success |-> FALSE, error |-> "", order |-> 0]

\* TypeScript: { success: false, error }
Failure(msg) == [state |-> "fulfilled", success |-> FALSE, error |-> msg, order |-> 0]

\* TypeScript: { success: true, order }; JavaScript: the order
Success(id) == [state |-> "fulfilled", success |-> TRUE, error |-> "", order |-> id]

\* a thrown TypeError rejects the promise
Rejected(msg) == [state |-> "rejected", success |-> FALSE, error |-> msg, order |-> 0]

\* a createOrder call that has run up to its first await (inside fetchUser)
NewCall(app, userId, items, awaiter) ==
    [app |-> app, userId |-> userId, items |-> items, awaiter |-> awaiter,
     pc |-> "fetchUser", user |-> 0, i |-> 0, subtotal |-> Num(0),
     orderItems |-> <<>>, result |-> Pending]

\* a plausible slip: the id counts from the length after the push
BuildOrderIdOff(app, u, orderItems, subtotal) ==
    LET discount == IF app = "ts" THEN calculateDiscountTs(u, subtotal)
                    ELSE calculateDiscountJs(u, subtotal)
        tax      == calculateTax(SubJs(subtotal, discount))
        total    == AddJs(SubJs(subtotal, discount), tax)
    IN  [id |-> Len(orders), user |-> u, items |-> orderItems,
         subtotal |-> subtotal, discount |-> discount, tax |-> tax, total |-> total,
         status |-> "pending", staus |-> ""]

\* the order object createOrder builds from its totals
BuildOrder(app, u, orderItems, subtotal) ==
    LET discount == IF app = "ts" THEN calculateDiscountTs(u, subtotal)
                    ELSE calculateDiscountJs(u, subtotal)
        tax      == calculateTax(SubJs(subtotal, discount))
        total    == AddJs(SubJs(subtotal, discount), tax)
    IN  [id |-> Len(orders) + 1, user |-> u, items |-> orderItems,
         subtotal |-> subtotal, discount |-> discount, tax |-> tax, total |-> total,
         status |-> "pending", staus |-> ""]

\* a plausible slip: the id is taken when the call starts, before its awaits
FinishOrderStaleId(k, u, orderItems, subtotal, lines) ==
    LET order == [BuildOrder(calls[k].app, u, orderItems, subtotal) EXCEPT !.id = k]
    IN  /\ orders' = Append(orders, order)
        /\ calls' = [calls EXCEPT ![k].pc = "done", ![k].user = u,
                                  ![k].orderItems = orderItems,
                                  ![k].subtotal = subtotal,
                                  ![k].result = Success(order.id)]
        /\ console' = console \o lines

\* the end of createOrder: totals, orders.push(order), return
FinishOrder(k, u, orderItems, subtotal, lines) ==
    LET order == BuildOrder(calls[k].app, u, orderItems, subtotal)
    IN  /\ orders' = Append(orders, order)
        /\ calls' = [calls EXCEPT ![k].pc = "done", ![k].user = u,
                                  ![k].orderItems = orderItems,
                                  ![k].subtotal = subtotal,
                                  ![k].result = Success(order.id)]
        /\ console' = console \o lines

\* a plausible slip: the items processed so far are stored before the early return
EndCallStoresPartial(k, result, lines) ==
    /\ calls' = [calls EXCEPT ![k].pc = "done", ![k].result = result]
    /\ console' = console \o lines
    /\ orders' = IF calls[k].orderItems = <<>> THEN orders
                 ELSE Append(orders, BuildOrder(calls[k].app, calls[k].user,
                                                calls[k].orderItems, calls[k].subtotal))

\* createOrder returns (or throws) without storing an order
EndCall(k, result, lines) ==
    /\ calls' = [calls EXCEPT ![k].pc = "done", ![k].result = result]
    /\ console' = console \o lines
    /\ UNCHANGED orders

\* TypeScript createOrder, resumed after `await fetchUser(userId)`
TsAfterFetchUser(k) ==
    /\ k \in 1..Len(calls)
    /\ calls[k].app = "ts"
    /\ calls[k].pc = "fetchUser"
    /\ LET c     == calls[k]
           u     == fetchUser(c.userId)
           hello == <<"Creating order for " \o users[u].name \o "...">>
       IN  IF u = 0
           THEN EndCall(k, Failure("User " \o ToStringJs(c.userId) \o " not found"), <<>>)
           ELSE IF Len(c.items) = 0
           THEN FinishOrder(k, u, <<>>, Num(0), hello)
           ELSE /\ calls' = [calls EXCEPT ![k].pc = "fetchProduct", ![k].user = u,
                                          ![k].i = 1]
                /\ console' = console \o hello
                /\ UNCHANGED orders
    /\ UNCHANGED <<aScript, mainPc, mainVal, tasks>>
    /\ UNCHANGED exceptApp

\* a plausible slip: the stock check is forgotten
TsAfterFetchProductNoStock(k) ==
    /\ k \in 1..Len(calls)
    /\ calls[k].app = "ts"
    /\ calls[k].pc = "fetchProduct"
    /\ LET c    == calls[k]
           item == c.items[c.i]
           p    == fetchProduct(item.productId)
       IN  IF p = 0
           THEN EndCall(k, Failure("Product " \o ToStringJs(item.productId)
                                       \o " not found"), <<>>)
           ELSE LET itemTotal == MulJs(Num(products[p].price), item.quantity)
                    subtotal  == AddJs(c.subtotal, itemTotal)
                    items2    == Append(c.orderItems,
                                        [product |-> p, quantity |-> item.quantity,
                                         total |-> itemTotal])
                IN  IF c.i = Len(c.items)
                    THEN FinishOrder(k, c.user, items2, subtotal, <<>>)
                    ELSE /\ calls' = [calls EXCEPT ![k].i = c.i + 1,
                                                   ![k].subtotal = subtotal,
                                                   ![k].orderItems = items2]
                         /\ UNCHANGED <<orders, console>>
    /\ UNCHANGED <<aScript, mainPc, mainVal, tasks>>
    /\ UNCHANGED exceptApp

\* TypeScript createOrder, resumed after `await fetchProduct(item.productId)`
TsAfterFetchProduct(k) ==
    /\ k \in 1..Len(calls)
    /\ calls[k].app = "ts"
    /\ calls[k].pc = "fetchProduct"
    /\ LET c    == calls[k]
           item == c.items[c.i]
           p    == fetchProduct(item.productId)
       IN  IF p = 0
           THEN EndCall(k, Failure("Product " \o ToStringJs(item.productId)
                                       \o " not found"), <<>>)
           ELSE IF ~products[p].inStock
           THEN EndCall(k, Failure("Product " \o products[p].name
                                       \o " is out of stock"), <<>>)
           ELSE LET itemTotal == MulJs(Num(products[p].price), item.quantity)
                    subtotal  == AddJs(c.subtotal, itemTotal)
                    items2    == Append(c.orderItems,
                                        [product |-> p, quantity |-> item.quantity,
                                         total |-> itemTotal])
                IN  IF c.i = Len(c.items)
                    THEN FinishOrder(k, c.user, items2, subtotal, <<>>)
                    ELSE /\ calls' = [calls EXCEPT ![k].i = c.i + 1,
                                                   ![k].subtotal = subtotal,
                                                   ![k].orderItems = items2]
                         /\ UNCHANGED <<orders, console>>
    /\ UNCHANGED <<aScript, mainPc, mainVal, tasks>>
    /\ UNCHANGED exceptApp

\* orders.find((o) => o.id === orderId): the index of the order, 0 when there is none
FindOrder(orderId) ==
    LET hits == {k \in 1..Len(orders) : orders[k].id = orderId}
    IN  IF hits = {} THEN 0 ELSE CHOOSE k \in hits : \A j \in hits : k <= j

\* TypeScript updateOrderStatus: the orders array afterwards
updateOrderStatusTs(orderId, newStatus) ==
    IF FindOrder(orderId) = 0 THEN orders
    ELSE [orders EXCEPT ![FindOrder(orderId)].status = newStatus]

\* the lines renderOrderSummary prints; the JavaScript version reads
\* order.user.emial, and item.quantity was stored from item.quanity
RenderLines(app, order) ==
    <<"\n========== ORDER SUMMARY ==========",
      "Order #" \o NatToString(order.id),
      "Customer: " \o users[order.user].name \o " ("
          \o ToStringJs(UserProp(order.user, IF app = "ts" THEN "email" ELSE "emial"))
          \o ")",
      "Status: " \o order.status,
      "\nItems:">>
    \o [i \in 1..Len(order.items) |->
          "  - " \o products[order.items[i].product].name
                 \o " x" \o ToStringJs(order.items[i].quantity)
                 \o " = $" \o ToFixed2(order.items[i].total)]
    \o <<"\nSubtotal: $" \o ToFixed2(order.subtotal),
         "Discount: -$" \o ToFixed2(order.discount),
         "Tax: $" \o ToFixed2(order.tax),
         "Total: $" \o ToFixed2(order.total),
         "====================================\n">>

\* the argument lists main passes to createOrder
MainItems1 ==
    <<[productId |-> Num(101), quantity |-> Num(2)],
      [productId |-> Num(102), quantity |-> Num(1)]>>

MainItems2 == <<[productId |-> Num(101), quantity |-> Num(1)]>>

\* TypeScript main up to `await createOrder(1, [...])`
TsMainStart ==
    /\ aScript = "tsMain"
    /\ mainPc = "start"
    /\ console' = Append(console, "Starting order processing...\n")
    /\ calls' = Append(calls, NewCall("ts", Num(1), MainItems1, "main"))
    /\ mainPc' = "await1"
    /\ UNCHANGED <<aScript, orders, mainVal, tasks>>
    /\ UNCHANGED exceptApp

\* a plausible slip: the first createOrder call is not awaited
TsMainAfterFirstNoAwait ==
    /\ aScript = "tsMain"
    /\ mainPc = "await1"
    /\ console' = Append(console, "Order failed: undefined")
    /\ calls' = Append(calls, NewCall("ts", Num(999), MainItems2, "main"))
    /\ mainPc' = "await2"
    /\ UNCHANGED <<aScript, orders, mainVal, tasks>>
    /\ UNCHANGED exceptApp

\* TypeScript main from the result of the first call to the second await
TsMainAfterFirst ==
    /\ aScript = "tsMain"
    /\ mainPc = "await1"
    /\ calls[1].result.state # "pending"
    /\ LET result == calls[1].result
       IN  IF result.state = "rejected"
           THEN /\ mainPc' = "rejected"
                /\ UNCHANGED <<orders, calls, mainVal, console>>
           ELSE /\ IF result.success
                   THEN /\ console' = console
                               \o RenderLines("ts", orders[FindOrder(result.order)])
                        /\ orders' = updateOrderStatusTs(result.order, "shipped")
                   ELSE /\ console' = Append(console, "Order failed: " \o result.error)
                        /\ UNCHANGED orders
                /\ mainVal' = result.order
                /\ calls' = Append(calls, NewCall("ts", Num(999), MainItems2, "main"))
                /\ mainPc' = "await2"
    /\ UNCHANGED <<aScript, tasks>>
    /\ UNCHANGED exceptApp

\* TypeScript main from the result of the second call to its end
TsMainAfterSecond ==
    /\ aScript = "tsMain"
    /\ mainPc = "await2"
    /\ calls[2].result.state # "pending"
    /\ LET badResult == calls[2].result
       IN  IF badResult.state = "rejected"
           THEN /\ mainPc' = "rejected"
                /\ UNCHANGED console
           ELSE /\ mainPc' = "done"
                /\ console' = IF ~badResult.success
                              THEN Append(console, "Expected error: " \o badResult.error)
                              ELSE console
    /\ UNCHANGED <<aScript, orders, calls, mainVal, tasks>>
    /\ UNCHANGED exceptApp

\* reading a property of an item argument: a missing property is undefined
ItemProp(item, name) == IF name \in DOMAIN item THEN item[name] ELSE Undef

TypeErrorReading(name) ==
    "Cannot read properties of undefined (reading '" \o name \o "')"

\* JavaScript createOrder, resumed after `await fetchUser(userId)`:
\* user.name is read without a check
JsAfterFetchUser(k) ==
    /\ k \in 1..Len(calls)
    /\ calls[k].app = "js"
    /\ calls[k].pc = "fetchUser"
    /\ LET c     == calls[k]
           u     == fetchUser(c.userId)
           hello == <<"Creating order for " \o users[u].name \o "...">>
       IN  IF u = 0
           THEN EndCall(k, Rejected(TypeErrorReading("name")), <<>>)
           ELSE IF Len(c.items) = 0
           THEN FinishOrder(k, u, <<>>, Num(0), hello)
           ELSE /\ calls' = [calls EXCEPT ![k].pc = "fetchProduct", ![k].user = u,
                                          ![k].i = 1]
                /\ console' = console \o hello
                /\ UNCHANGED orders
    /\ UNCHANGED <<aScript, mainPc, mainVal, tasks>>
    /\ UNCHANGED exceptApp

\* JavaScript createOrder, resumed after `await fetchProduct(item.productId)`:
\* product.price is read without a check, the quantity is stored from item.quanity
JsAfterFetchProduct(k) ==
    /\ k \in 1..Len(calls)
    /\ calls[k].app = "js"
    /\ calls[k].pc = "fetchProduct"
    /\ LET c    == calls[k]
           item == c.items[c.i]
           p    == fetchProduct(item.productId)
       IN  IF p = 0
           THEN EndCall(k, Rejected(TypeErrorReading("price")), <<>>)
           ELSE LET itemTotal == MulJs(Num(products[p].price), ItemProp(item, "quantity"))
                    subtotal  == AddJs(c.subtotal, itemTotal)
                    items2    == Append(c.orderItems,
                                        [product |-> p,
                                         quantity |-> ItemProp(item, "quanity"),
                                         total |-> itemTotal])
                IN  IF c.i = Len(c.items)
                    THEN FinishOrder(k, c.user, items2, subtotal, <<>>)
                    ELSE /\ calls' = [calls EXCEPT ![k].i = c.i + 1,
                                                   ![k].subtotal = subtotal,
                                                   ![k].orderItems = items2]
                         /\ UNCHANGED <<orders, console>>
    /\ UNCHANGED <<aScript, mainPc, mainVal, tasks>>
    /\ UNCHANGED exceptApp

\* JavaScript updateOrderStatus writes order.staus
updateOrderStatusJs(orderId, newStatus) ==
    [orders EXCEPT ![FindOrder(orderId)].staus = newStatus]

MainItems3 == <<[productId |-> Text("101"), quantity |-> Text("2")]>>

\* JavaScript main up to `await createOrder(1, [...])`
JsMainStart ==
    /\ aScript = "jsMain"
    /\ mainPc = "start"
    /\ console' = Append(console, "Starting order processing...\n")
    /\ calls' = Append(calls, NewCall("js", Num(1), MainItems1, "main"))
    /\ mainPc' = "await1"
    /\ UNCHANGED <<aScript, orders, mainVal, tasks>>
    /\ UNCHANGED exceptApp

\* JavaScript main from the first order to the await inside the try block
JsMainAfterFirst ==
    /\ aScript = "jsMain"
    /\ mainPc = "await1"
    /\ calls[1].result.state # "pending"
    /\ IF calls[1].result.state = "rejected" \/ FindOrder(calls[1].result.order) = 0
       THEN /\ mainPc' = "rejected"
            /\ UNCHANGED <<orders, calls, mainVal, console>>
       ELSE /\ console' = console
                   \o RenderLines("js", orders[FindOrder(calls[1].result.order)])
            /\ orders' = updateOrderStatusJs(calls[1].result.order, "shipped")
            /\ mainVal' = calls[1].result.order
            /\ calls' = Append(calls, NewCall("js", Num(999), MainItems2, "main"))
            /\ mainPc' = "await2"
    /\ UNCHANGED <<aScript, tasks>>
    /\ UNCHANGED exceptApp

\* JavaScript main from the end of the try/catch to the last await
JsMainAfterSecond ==
    /\ aScript = "jsMain"
    /\ mainPc = "await2"
    /\ calls[2].result.state # "pending"
    /\ LET badOrder == calls[2].result
       IN  console' = IF badOrder.state = "rejected"
                      THEN Append(console, "Error: " \o badOrder.error)
                      ELSE console \o RenderLines("js", orders[FindOrder(badOrder.order)])
    /\ calls' = Append(calls, NewCall("js", Text("one"), MainItems3, "main"))
    /\ mainPc' = "await3"
    /\ UNCHANGED <<aScript, orders, mainVal, tasks>>
    /\ UNCHANGED exceptApp

\* JavaScript main after the last await, which is outside the try block
JsMainAfterThird ==
    /\ aScript = "jsMain"
    /\ mainPc = "await3"
    /\ calls[3].result.state # "pending"
    /\ mainPc' = IF calls[3].result.state = "rejected" THEN "rejected" ELSE "done"
    /\ UNCHANGED <<aScript, orders, calls, mainVal, console, tasks>>
    /\ UNCHANGED exceptApp

\* the arguments other modules may pass to createOrder: a known user (the
\* basic one, main orders for the premium one) and an unknown one
UserIds == {Num(2), Num(999)}

ItemChoices ==
    {[productId |-> Num(101), quantity |-> Num(2)],
     [productId |-> Num(103), quantity |-> Num(1)],
     [productId |-> Num(404), quantity |-> Num(1)]}

ItemLists == UNION {[1..n -> ItemChoices] : n \in 0..MaxItems}

\* two modules that use createOrder, each calling it once and at any time
Callers == {"checkout", "reorder"}

CallCreateOrder(caller, userId, items) ==
    /\ aScript \in {"tsCalls", "jsCalls"}
    /\ \A k \in 1..Len(calls) : calls[k].awaiter # caller
    /\ calls' = Append(calls, NewCall(IF aScript = "tsCalls" THEN "ts" ELSE "js",
                                      userId, items, caller))
    /\ UNCHANGED <<aScript, orders, mainPc, mainVal, console, tasks>>
    /\ UNCHANGED exceptApp

(***************************************************************************)
(* The async demo (10-promises-and-async): four calls started at top level *)
(* and not awaited.  What the network answers is not the program's choice. *)
(***************************************************************************)
FetchOutcomes == {"ok", "notOk", "error"}

JsonOutcomes == {"object", "null", "error"}

DemoTasks == <<"displayTodo", "processTodos", "displayUserWithTodos", "handleFetch">>

\* a call that has run up to its first await, the fetch
NewTask(name) == [name |-> name, pc |-> "fetch", state |-> "pending", body |-> ""]

\* the script runs top to bottom; each call returns at its first await
DemoStart ==
    /\ aScript = "asyncDemo"
    /\ mainPc = "start"
    /\ tasks' = [t \in 1..Len(DemoTasks) |-> NewTask(DemoTasks[t])]
    /\ mainPc' = "done"
    /\ UNCHANGED <<aScript, orders, calls, mainVal, console>>
    /\ UNCHANGED exceptApp

Settle(t, state, lines) ==
    /\ tasks' = [tasks EXCEPT ![t].pc = "done", ![t].state = state]
    /\ console' = console \o lines

\* `await fetch(...)` settles
FetchSettles(t, outcome) ==
    /\ t \in 1..Len(tasks)
    /\ tasks[t].pc \in {"fetch", "fetch2"}
    /\ IF tasks[t].name = "handleFetch"
       THEN \* fetchWithErrorHandling: catch, and the !response.ok branch
            IF outcome = "ok"
            THEN tasks' = [tasks EXCEPT ![t].pc = "json"] /\ UNCHANGED console
            ELSE Settle(t, "fulfilled", <<"undefined">>)
       ELSE IF outcome = "error"
            THEN Settle(t, "rejected", <<>>)
            ELSE /\ tasks' = [tasks EXCEPT
                                ![t].pc = IF tasks[t].pc = "fetch" THEN "json" ELSE "json2"]
                 /\ UNCHANGED console
    /\ UNCHANGED <<aScript, orders, calls, mainPc, mainVal>>
    /\ UNCHANGED exceptApp

\* `await response.json()` settles, and the caller runs to its end or next await
JsonSettles(t, outcome) ==
    /\ t \in 1..Len(tasks)
    /\ tasks[t].pc \in {"json", "json2"}
    /\ CASE tasks[t].name = "displayTodo" ->
              IF outcome = "object"
              THEN Settle(t, "fulfilled",
                          <<"Todo: <title>", "Completed: <completed>", "ID: <id>",
                            "Title: undefined">>)
              ELSE Settle(t, "rejected", <<>>)
         [] tasks[t].name = "processTodos" ->
              IF outcome = "object"
              THEN Settle(t, "fulfilled",
                          <<"Titles: [ undefined ]", "User IDs: [ undefined ]">>)
              ELSE Settle(t, "rejected", <<>>)
         [] tasks[t].name = "displayUserWithTodos" ->
              IF outcome = "error" THEN Settle(t, "rejected", <<>>)
              ELSE IF tasks[t].pc = "json"
              THEN /\ tasks' = [tasks EXCEPT ![t].pc = "fetch2", ![t].body = outcome]
                   /\ UNCHANGED console
              ELSE IF outcome = "null" \/ tasks[t].body = "null"
              THEN Settle(t, "rejected", <<>>)
              ELSE Settle(t, "fulfilled",
                          <<"User: <name>", "Email: undefined", "Todo count: undefined">>)
         [] tasks[t].name = "handleFetch" ->
              IF outcome = "null" THEN Settle(t, "rejected", <<>>)
              ELSE Settle(t, "fulfilled", <<"undefined">>)
    /\ UNCHANGED <<aScript, orders, calls, mainPc, mainVal>>
    /\ UNCHANGED exceptApp

\* main of the JavaScript app makes three calls, more than any other script
CallIds == 1..Len(<<MainItems1, MainItems2, MainItems3>>)

TaskIds == 1..Len(DemoTasks)

AppScripts == {"tsMain", "jsMain", "asyncDemo", "tsCalls", "jsCalls"}

InitApps ==
    /\ RouteIdle
    /\ LoopIdle
    /\ TruthIdle
    /\ CallIdle
    /\ ScriptIdle
    /\ aScript \in AppScripts
    /\ orders = <<>>
    /\ calls = <<>>
    /\ mainPc = "start"
    /\ mainVal = 0
    /\ console = <<>>
    /\ tasks = <<>>

NextApps ==
    \/ \E k \in CallIds : TsAfterFetchUser(k)
    \/ \E k \in CallIds : TsAfterFetchProduct(k)
    \/ TsMainStart
    \/ TsMainAfterFirst
    \/ TsMainAfterSecond
    \/ \E k \in CallIds : JsAfterFetchUser(k)
    \/ \E k \in CallIds : JsAfterFetchProduct(k)
    \/ JsMainStart
    \/ JsMainAfterFirst
    \/ JsMainAfterSecond
    \/ JsMainAfterThird
    \/ \E c \in Callers : \E u \in UserIds : \E items \in ItemLists :
          CallCreateOrder(c, u, items)
    \/ DemoStart
    \/ \E t \in TaskIds : \E o \in FetchOutcomes : FetchSettles(t, o)
    \/ \E t \in TaskIds : \E o \in JsonOutcomes : JsonSettles(t, o)

SpecApps == InitApps /\ [][NextApps]_vars

(***************************************************************************)
(* The function demos: one call of a function, in its JavaScript and its   *)
(* TypeScript variant, on the same arguments.  An object is a function     *)
(* from property names to values; Date values (createdAt) are left out.    *)
(***************************************************************************)
\* obj.name, undefined when the object has no such property
Prop(obj, name) == IF name \in DOMAIN obj THEN obj[name] ELSE Undef

\* JavaScript transformUserData (11-gradual-migration.js)
transformUserDataJs(rawData) ==
    [id     |-> OrElse(OrElse(Prop(rawData, "id"), Prop(rawData, "userId")),
                       Prop(rawData, "user_id")),
     name   |-> OrElse(OrElse(Prop(rawData, "name"), Prop(rawData, "fullName")),
                       Text(ToStringJs(Prop(rawData, "firstName")) \o " "
                                \o ToStringJs(Prop(rawData, "lastName")))),
     email  |-> OrElse(OrElse(Prop(rawData, "email"), Prop(rawData, "emailAddress")),
                       Prop(rawData, "mail")),
     active |-> Nullish(Nullish(Prop(rawData, "active"), Prop(rawData, "isActive")),
                        Bool(StrictEq(Prop(rawData, "status"), Text("active"))))]

\* the type guards of the TypeScript version
isV1User(data) == "id" \in DOMAIN data /\ "name" \in DOMAIN data

isV2User(data) == "userId" \in DOMAIN data /\ "fullName" \in DOMAIN data

\* TypeScript transformUserData (11-gradual-migration.ts)
transformUserDataTs(rawData) ==
    IF isV1User(rawData)
    THEN [id |-> Prop(rawData, "id"), name |-> Prop(rawData, "name"),
          email |-> Prop(rawData, "email"), active |-> Prop(rawData, "active")]
    ELSE IF isV2User(rawData)
    THEN [id |-> Prop(rawData, "userId"), name |-> Prop(rawData, "fullName"),
          email |-> Prop(rawData, "mail"), active |-> Prop(rawData, "isActive")]
    ELSE [id |-> Prop(rawData, "user_id"),
          name |-> Text(ToStringJs(Prop(rawData, "firstName")) \o " "
                            \o ToStringJs(Prop(rawData, "lastName"))),
          email |-> Prop(rawData, "emailAddress"),
          active |-> Bool(StrictEq(Prop(rawData, "status"), Text("active")))]

\* the values of RawUserData: the three legacy shapes
SampleIds == {Num(0), Num(1)}

SampleNames == {Text(""), Text("Alice")}

SampleEmails == {Text(""), Text("a@x.com")}

SampleFlags == {Bool(TRUE), Bool(FALSE)}

LegacyUserV1 ==
    {[id |-> i, name |-> n, email |-> e, active |-> a] :
        i \in SampleIds, n \in SampleNames, e \in SampleEmails, a \in SampleFlags}

LegacyUserV2 ==
    {[userId |-> i, fullName |-> n, mail |-> e, isActive |-> a] :
        i \in SampleIds, n \in SampleNames, e \in SampleEmails, a \in SampleFlags}

LegacyUserV3 ==
    {[user_id |-> i, firstName |-> f, lastName |-> l, emailAddress |-> e] :
        i \in SampleIds, f \in SampleNames, l \in SampleNames, e \in SampleEmails}
    \cup
    {[user_id |-> i, firstName |-> f, lastName |-> l, emailAddress |-> e, status |-> s] :
        i \in SampleIds, f \in SampleNames, l \in SampleNames, e \in SampleEmails,
        s \in {Text("active"), Text("inactive")}}

\* a script calls transformUserData(rawData)
CallTransformUserData ==
    /\ gCall.fn = "transformUserData"
    /\ ~gOut.done
    /\ gOut' = [done |-> TRUE, js |-> transformUserDataJs(gCall.args[1]),
                ts |-> transformUserDataTs(gCall.args[1])]
    /\ UNCHANGED gCall
    /\ UNCHANGED exceptCall

\* JSON.stringify of a flat object, given as its properties in insertion order
JsonValue(v) ==
    IF v.t = "string" THEN "\"" \o v.s \o "\"" ELSE ToStringJs(v)

RECURSIVE JsonMembers(_)
JsonMembers(props) ==
    IF props = <<>> THEN ""
    ELSE "\"" \o props[1][1] \o "\":" \o JsonValue(props[1][2])
            \o (IF Len(props) = 1 THEN "" ELSE "," \o JsonMembers(Tail(props)))

JsonStringify(props) == "{" \o JsonMembers(props) \o "}"

\* JavaScript handleEvent: what it logs ("" when it logs nothing)
handleEventJs(event) ==
    IF event.type = Text("click")
    THEN Text("Clicked on "
                \o ToStringJs(OrElse(IF "target" \in DOMAIN event
                                     THEN Prop(event.target, "id") ELSE Undef,
                                     Text("unknown"))))
    ELSE IF event.type = Text("submit")
    THEN Text("Form submitted: " \o JsonStringify(event.data))
    ELSE IF event.type = Text("error")
    THEN Text("Error: "
                \o ToStringJs(OrElse(OrElse(Prop(event, "message"),
                                            IF "error" \in DOMAIN event
                                            THEN Prop(event.error, "message") ELSE Undef),
                                     Text("Unknown error"))))
    ELSE Text("")

\* TypeScript handleEvent
handleEventTs(event) ==
    CASE event.type = Text("click") ->
            Text("Clicked on " \o ToStringJs(Prop(event.target, "id")))
      [] event.type = Text("submit") ->
            Text("Form submitted: " \o JsonStringify(event.data))
      [] event.type = Text("error") ->
            Text("Error: "
                   \o ToStringJs(Nullish(Nullish(Prop(event, "message"),
                                                 IF "error" \in DOMAIN event
                                                 THEN Prop(event.error, "message")
                                                 ELSE Undef),
                                         Text("Unknown"))))

\* the values of AppEvent
SampleMessages == {Text(""), Text("disk full")}

ClickEvents ==
    {[type |-> Text("click"), target |-> [id |-> i]] : i \in {Text(""), Text("save")}}

SubmitEvents ==
    {[type |-> Text("submit"), data |-> d] :
        d \in {<<>>, <<<<"q", Text("")>>>>, <<<<"a", Num(1)>>, <<"ok", Bool(TRUE)>>>>}}

ErrorEvents ==
    {[type |-> Text("error")]}
    \cup {[type |-> Text("error"), message |-> msg] : msg \in SampleMessages}
    \cup {[type |-> Text("error"), error |-> [message |-> msg]] : msg \in SampleMessages}
    \cup {[type |-> Text("error"), message |-> msg, error |-> [message |-> m2]] :
            msg \in SampleMessages, m2 \in SampleMessages}

\* a script calls handleEvent(event)
CallHandleEvent ==
    /\ gCall.fn = "handleEvent"
    /\ ~gOut.done
    /\ gOut' = [done |-> TRUE, js |-> [log |-> handleEventJs(gCall.args[1])],
                ts |-> [log |-> handleEventTs(gCall.args[1])]]
    /\ UNCHANGED gCall
    /\ UNCHANGED exceptCall

\* the value a call returns, or the error it throws
Returns(text) == [kind |-> "return", value |-> Text(text)]

Throws(name) == [kind |-> "throw", value |-> Text(name)]

\* options?.name, for the options argument [given, obj]
OptionsProp(options, name) == IF options.given THEN Prop(options.obj, name) ELSE Undef

\* amount.toFixed(decimals), which accepts 0 to 100 decimals
toFixedCall(amount, decimals) ==
    IF decimals.n \in 0..100 THEN Returns(ToFixed(amount, decimals.n))
    ELSE Throws("RangeError")

\* a plausible slip: the default for decimals taken with || as for the others
formatCurrencyJsOr(amount, options) ==
    LET decimals   == OrElse(OptionsProp(options, "decimals"), Num(2))
        showSymbol == ~StrictEq(OptionsProp(options, "showSymbol"), Bool(FALSE))
        formatted  == toFixedCall(amount, decimals)
    IN  IF formatted.kind = "throw" THEN formatted
        ELSE IF showSymbol THEN Returns("$" \o formatted.value.s)
        ELSE formatted

\* JavaScript formatCurrency
formatCurrencyJs(amount, options) ==
    LET locale     == OrElse(OptionsProp(options, "locale"), Text("en-US"))
        currency   == OrElse(OptionsProp(options, "currency"), Text("USD"))
        decimals   == Nullish(OptionsProp(options, "decimals"), Num(2))
        showSymbol == ~StrictEq(OptionsProp(options, "showSymbol"), Bool(FALSE))
        formatted  == toFixedCall(amount, decimals)
    IN  IF formatted.kind = "throw" THEN formatted
        ELSE IF showSymbol THEN Returns("$" \o formatted.value.s)
        ELSE formatted

\* TypeScript formatCurrency
formatCurrencyTs(amount, options) ==
    LET locale     == Nullish(OptionsProp(options, "locale"), Text("en-US"))
        currency   == Nullish(OptionsProp(options, "currency"), Text("USD"))
        decimals   == Nullish(OptionsProp(options, "decimals"), Num(2))
        showSymbol == ~StrictEq(OptionsProp(options, "showSymbol"), Bool(FALSE))
        formatted  == toFixedCall(amount, decimals)
    IN  IF formatted.kind = "throw" THEN formatted
        ELSE IF showSymbol THEN Returns("$" \o formatted.value.s)
        ELSE formatted

\* the amounts 0, 0.5, 99.99 and -2.5, and the option objects of the calls
SampleAmounts == {Num(0), Num(50000), Num(9999000), Num(-250000)}

\* the objects with the given properties, each left out or set to one of its values
RECURSIVE ObjectsWith(_, _)
ObjectsWith(names, values) ==
    IF names = <<>> THEN {<<>>}
    ELSE LET rest == ObjectsWith(Tail(names), values)
         IN  rest \cup {[k \in DOMAIN o \cup {names[1]} |->
                             IF k = names[1] THEN v ELSE o[k]] :
                         o \in rest, v \in values[names[1]]}

CurrencyOptionValues ==
    [locale     |-> {Text(""), Text("de-DE")},
     currency   |-> {Text("EUR")},
     decimals   |-> {Null, Num(-1), Num(0), Num(1), Num(2), Num(3)},
     showSymbol |-> {Bool(TRUE), Bool(FALSE)}]

CurrencyOptions ==
    {[given |-> FALSE, obj |-> <<>>]}
    \cup {[given |-> TRUE, obj |-> o] :
            o \in ObjectsWith(<<"locale", "currency", "decimals", "showSymbol">>,
                              CurrencyOptionValues)}

\* a script calls formatCurrency(amount, options)
CallFormatCurrency ==
    /\ gCall.fn = "formatCurrency"
    /\ ~gOut.done
    /\ gOut' = [done |-> TRUE, js |-> formatCurrencyJs(gCall.args[1], gCall.args[2]),
                ts |-> formatCurrencyTs(gCall.args[1], gCall.args[2])]
    /\ UNCHANGED gCall
    /\ UNCHANGED exceptCall

\* a == b
LooseEq(a, b) ==
    CASE a.t \in {"null", "undefined"} \/ b.t \in {"null", "undefined"} ->
            a.t \in {"null", "undefined"} /\ b.t \in {"null", "undefined"}
      [] a.t = "string" /\ b.t = "string" -> a.s = b.s
      [] OTHER ->
            /\ ToNumber(a).t = "number"
            /\ ToNumber(b).t = "number"
            /\ ToNumber(a).n = ToNumber(b).n

\* calculateTotal of the overview demo (00-overview)
calculateTotal(price, quantity) == MulJs(price, quantity)

SampleFactors == {Num(10), Num(5), Text("ten"), Text("10"), Text("5")}

\* a script calls calculateTotal(price, quantity)
CallCalculateTotal ==
    /\ gCall.fn = "calculateTotal"
    /\ ~gOut.done
    /\ gOut' = [done |-> TRUE,
                js |-> [value |-> calculateTotal(gCall.args[1], gCall.args[2])],
                ts |-> <<>>]
    /\ UNCHANGED gCall
    /\ UNCHANGED exceptCall

\* JavaScript checkId (01-basics.js)
checkIdJs(id) == IF LooseEq(id, Num(1)) THEN Text("Found user 1!") ELSE Text("Not found")

\* parseInt(s, 10): the number of the longest prefix of digits, NaN without one;
\* what follows the digits is one of the tails the inputs have
NonDigitTails == {"", "a", "px", ".5"}

parseInt10(s) ==
    LET hits == {n \in 0..ParseLimit :
                    \E z \in 0..MaxZeros : \E r \in NonDigitTails :
                        Zeros(z) \o NatToString(n) \o r = s}
    IN  IF hits = {} THEN NaN ELSE Num(CHOOSE n \in hits : TRUE)

\* TypeScript checkIdFlexible (01-basics.ts)
checkIdFlexible(id) ==
    LET numericId == IF id.t = "string" THEN parseInt10(id.s) ELSE id
    IN  IF StrictEq(numericId, Num(1)) THEN Text("Found user 1!") ELSE Text("Not found")

SampleUserIds ==
    {Num(0), Num(1), Num(2), Text("1"), Text("01"), Text("001"), Text("2"), Text("1a"),
     Text("1.5"), Text("12px"), Text(""), Text("one")}

\* a script calls checkId(id) and checkIdFlexible(id)
CallCheckId ==
    /\ gCall.fn = "checkId"
    /\ ~gOut.done
    /\ gOut' = [done |-> TRUE, js |-> [value |-> checkIdJs(gCall.args[1])],
                ts |-> [value |-> checkIdFlexible(gCall.args[1])]]
    /\ UNCHANGED gCall
    /\ UNCHANGED exceptCall

(***************************************************************************)
(* The type checker on the TypeScript end-to-end app, for the app as       *)
(* written and with the slips of the JavaScript version put back in.  No   *)
(* compiler configuration is part of the sources; the demos take           *)
(* strictNullChecks to be enabled (01-basics.ts), and so does the model.   *)
(***************************************************************************)
\* the property names of the interfaces
Interfaces ==
    [User               |-> {"id", "name", "email", "tier"},
     Product            |-> {"id", "name", "price", "inStock"},
     OrderItem          |-> {"product", "quantity", "total"},
     Order              |-> {"id", "user", "items", "subtotal", "discount", "tax",
                             "total", "status", "createdAt"},
     CreateOrderItem    |-> {"productId", "quantity"},
     CreateOrderSuccess |-> {"success", "order"},
     CreateOrderError   |-> {"success", "error"}]

\* the string literal unions
LiteralUnions ==
    [UserTier    |-> {"basic", "premium", "enterprise"},
     OrderStatus |-> {"pending", "processing", "shipped", "delivered", "cancelled"}]

\* an expression or statement of a variant of the program:
\*   property: a read or write of property `name` of a value of interface `on`
\*   nullable: a read of `name` of a value of type `on | null`, not narrowed
\*   argument: the string literal `name` passed where `on` is expected
\*   omitted : the statement `if (!x.name) return ...` on a value of `on` left out
Edit(kind, on, name) == [kind |-> kind, on |-> on, name |-> name]

\* the bugs listed for the JavaScript app, as edits of the TypeScript app
ListedBugs ==
    {Edit("property", "User", "teir"),
     Edit("nullable", "User", "name"),
     Edit("nullable", "Product", "price"),
     Edit("omitted", "Product", "inStock"),
     Edit("property", "CreateOrderItem", "quanity"),
     Edit("argument", "OrderStatus", "banana"),
     Edit("property", "Order", "staus"),
     Edit("property", "User", "emial"),
     Edit("property", "CreateOrderError", "order"),
     Edit("argument", "number", "one")}

\* expressions of the program as written
SoundEdits ==
    {Edit("property", "User", "tier"),
     Edit("argument", "OrderStatus", "shipped")}

\* does the type checker report an error on the edit
Diagnoses(edit, strictNullChecks) ==
    CASE edit.kind = "property" -> edit.name \notin Interfaces[edit.on]
      [] edit.kind = "nullable" -> strictNullChecks \/ edit.name \notin Interfaces[edit.on]
      [] edit.kind = "argument" ->
            IF edit.on \in DOMAIN LiteralUnions
            THEN edit.name \notin LiteralUnions[edit.on]
            ELSE edit.on # "string"
      [] edit.kind = "omitted"  -> FALSE

\* the setting of strictNullChecks the program is compiled with
StrictNullChecks == {TRUE}

\* the variants: the program with at most two of the edits
Variants == {v \in SUBSET (ListedBugs \cup SoundEdits) : Cardinality(v) <= 2}

\* the compiler runs on a variant
CompileVariant ==
    /\ gCall.fn = "tsc"
    /\ ~gOut.done
    /\ gOut' = [done |-> TRUE, js |-> <<>>,
                ts |-> [errors |-> {e \in gCall.args[1] : Diagnoses(e, gCall.args[2])}]]
    /\ UNCHANGED gCall
    /\ UNCHANGED exceptCall

InitCalls ==
    /\ RouteIdle
    /\ LoopIdle
    /\ TruthIdle
    /\ AppIdle
    /\ ScriptIdle
    /\ gOut = NotReturned
    /\ \/ \E u \in LegacyUserV1 : gCall = [fn |-> "transformUserData", args |-> <<u>>]
       \/ \E u \in LegacyUserV2 : gCall = [fn |-> "transformUserData", args |-> <<u>>]
       \/ \E u \in LegacyUserV3 : gCall = [fn |-> "transformUserData", args |-> <<u>>]
       \/ \E e \in ClickEvents : gCall = [fn |-> "handleEvent", args |-> <<e>>]
       \/ \E e \in SubmitEvents : gCall = [fn |-> "handleEvent", args |-> <<e>>]
       \/ \E e \in ErrorEvents : gCall = [fn |-> "handleEvent", args |-> <<e>>]
       \/ \E a \in SampleAmounts : \E o \in CurrencyOptions :
             gCall = [fn |-> "formatCurrency", args |-> <<a, o>>]
       \/ \E a \in SampleFactors : \E b \in SampleFactors :
             gCall = [fn |-> "calculateTotal", args |-> <<a, b>>]
       \/ \E i \in SampleUserIds : gCall = [fn |-> "checkId", args |-> <<i>>]
       \/ \E v \in Variants : \E s \in StrictNullChecks : gCall = [fn |-> "tsc", args |-> <<v, s>>]

NextCalls ==
    \/ CallTransformUserData
    \/ CallHandleEvent
    \/ CallFormatCurrency
    \/ CallCalculateTotal
    \/ CallCheckId
    \/ CompileVariant

SpecCalls == InitCalls /\ [][NextCalls]_vars

\* the call of the function demos has returned
Called(fn) == gCall.fn = fn /\ gOut.done

\* C11: for every input of the three legacy shapes, the TypeScript
\* transformUserData returns the same id, name, email and active as the
\* JavaScript one
C11_SameNormalizedUser ==
    Called("transformUserData") =>
        \A f \in {"id", "name", "email", "active"} : gOut.ts[f] = gOut.js[f]

\* C12: for every event of the AppEvent shapes, the TypeScript handleEvent logs
\* exactly the message the JavaScript handleEvent logs
C12_SameEventLog ==
    Called("handleEvent") => gOut.ts.log = gOut.js.log

\* the decimals and the symbol the documented defaults give for the call
DocumentedDecimals(options) ==
    IF options.given /\ "decimals" \in DOMAIN options.obj
          /\ options.obj["decimals"] \notin {Null, Undef}
    THEN options.obj["decimals"].n ELSE 2

DocumentedSymbol(options) ==
    IF options.given /\ "showSymbol" \in DOMAIN options.obj
          /\ options.obj["showSymbol"] = Bool(FALSE)
    THEN "" ELSE "$"

C15_CalculateTotalOutputs ==
    Called("calculateTotal") =>
        /\ gCall.args = <<Num(10), Num(5)>> => gOut.js.value = Num(50)
        /\ gCall.args = <<Text("ten"), Num(5)>> => gOut.js.value = NaN
        /\ gCall.args = <<Num(10), Text("5")>> => gOut.js.value = Num(50)
        /\ gCall.args = <<Text("10"), Text("5")>> => gOut.js.value = Text("105")

\* C16: checkId returns 'Found user 1!' for 1 and '1' and 'Not found' for '01';
\* checkIdFlexible returns 'Found user 1!' for 1 and '1'
C16_CheckIdOutputs ==
    Called("checkId") =>
        /\ gCall.args[1] \in {Num(1), Text("1")} =>
              /\ gOut.js.value = Text("Found user 1!")
              /\ gOut.ts.value = Text("Found user 1!")
        /\ gCall.args[1] = Text("01") => gOut.js.value = Text("Not found")

\* C17: every listed bug of the JavaScript app that is put into the TypeScript
\* app is reported by the type checker
C17_ListedBugsRejected ==
    Called("tsc") =>
        \A bug \in gCall.args[1] \cap ListedBugs : bug \in gOut.ts.errors

(***************************************************************************)
(* Claims about the apps                                                   *)
(***************************************************************************)
\* the asynchronous operations of a script: createOrder calls, main, demo calls
Operations ==
    {[kind |-> "createOrder", id |-> k] : k \in 1..Len(calls)}
        \cup {[kind |-> "main", id |-> 0]}
        \cup {[kind |-> "demo", id |-> t] : t \in 1..Len(tasks)}

InFlight(op) ==
    CASE op.kind = "createOrder" -> calls[op.id].result.state = "pending"
      [] op.kind = "main"        -> mainPc \in {"await1", "await2", "await3"}
      [] op.kind = "demo"        -> tasks[op.id].state = "pending"

\* main is suspended on the call it awaits: the two do not run concurrently
Awaits(a, b) ==
    /\ a.kind = "main"
    /\ b.kind = "createOrder"
    /\ mainPc = "await" \o NatToString(b.id)

\* the mutable variables an operation reads or writes: createOrder pushes to
\* orders, main searches orders in updateOrderStatus, the demo calls use locals
Footprint(op) == IF op.kind \in {"createOrder", "main"} THEN {"orders"} ELSE {}

DemoScripts == {"tsMain", "jsMain", "asyncDemo"}

\* C6: in every demo script, two operations in flight at the same time, neither
\* awaiting the other, have no mutable variable in common; in particular at most
\* one createOrder execution is in flight in the two mains, and orders only
\* changes in a step of the one operation that is running
C6_NoSharedMutableState ==
    /\ [](aScript \in DemoScripts =>
            \A a \in Operations : \A b \in Operations :
                (a # b /\ InFlight(a) /\ InFlight(b) /\ ~Awaits(a, b) /\ ~Awaits(b, a))
                    => Footprint(a) \cap Footprint(b) = {})
    /\ [][(aScript \in DemoScripts /\ orders' # orders) =>
            /\ Cardinality({k \in 1..Len(calls) : calls[k].result.state = "pending"}) <= 1
            /\ \A t \in 1..Len(tasks) : tasks[t].state # "pending"]_vars

\* the second createOrder of main is in flight after the first one stored its order
C6_Witness ==
    /\ aScript = "jsMain"
    /\ Len(calls) = 2
    /\ calls[1].result.state = "fulfilled"
    /\ calls[2].result.state = "pending"
    /\ Len(orders) = 1

\* the error of the first check that fails for these arguments, "" when none does
ExpectedError(userId, items) ==
    LET known(id) == \E k \in 1..Len(products) : Num(products[k].id) = id
        stocked(id) == \E k \in 1..Len(products) :
                          Num(products[k].id) = id /\ products[k].inStock
        nameOf(id) == products[CHOOSE k \in 1..Len(products) : Num(products[k].id) = id].name
        bad == {i \in 1..Len(items) : ~stocked(items[i].productId)}
        first == CHOOSE i \in bad : \A j \in bad : i <= j
    IN  IF ~\E k \in 1..Len(users) : Num(users[k].id) = userId
        THEN "User " \o ToStringJs(userId) \o " not found"
        ELSE IF bad = {} THEN ""
        ELSE IF ~known(items[first].productId)
        THEN "Product " \o ToStringJs(items[first].productId) \o " not found"
        ELSE "Product " \o nameOf(items[first].productId) \o " is out of stock"

\* C8: a TypeScript createOrder call never rejects; when it has returned, its
\* result is { success: false, error } with the error of the first failing check
\* (unknown user, unknown product, product out of stock), or success when no
\* check fails; and main never rejects and logs the error of a failed result
C8_NoOrderFailureThrows ==
    /\ \A k \in 1..Len(calls) :
          calls[k].app = "ts" =>
              /\ calls[k].result.state # "rejected"
              /\ calls[k].result.state = "fulfilled" =>
                    /\ calls[k].result.error = ExpectedError(calls[k].userId, calls[k].items)
                    /\ calls[k].result.success = (calls[k].result.error = "")
    /\ aScript = "tsMain" =>
          /\ mainPc # "rejected"
          /\ \A k \in 1..Len(calls) :
                (calls[k].result.state = "fulfilled" /\ ~calls[k].result.success
                    /\ mainPc \notin {"await" \o NatToString(j) : j \in 1..k})
                => \E n \in 1..Len(console) :
                      console[n] \in {"Order failed: " \o calls[k].result.error,
                                      "Expected error: " \o calls[k].result.error}

\* main has finished after logging the failure of createOrder(999, ...)
C8_Witness ==
    /\ aScript = "tsMain"
    /\ mainPc = "done"
    /\ calls[2].result = Failure("User 999 not found")
    /\ console[Len(console)] = "Expected error: User 999 not found"

\* C14: in the JavaScript app the last call of main, createOrder("one", ...),
\* completes without an error and main finishes without a rejection
C14_WrongTypesAcceptedSilently ==
    aScript = "jsMain" =>
        /\ mainPc # "rejected"
        /\ Len(calls) >= 3 => calls[3].result.state # "rejected"

\* call k takes a step
StepOf(k) == k \in 1..Len(calls) /\ calls'[k] # calls[k]

\* the step in which call k returns
ReturnOf(k) ==
    /\ StepOf(k)
    /\ calls[k].result.state = "pending"
    /\ calls'[k].result.state # "pending"

\* C18: a TypeScript createOrder call whose user exists and whose products all
\* exist and are in stock returns success and, in the step in which it returns,
\* appends exactly one order: id = length of orders before + 1, status 'pending',
\* the fetched user, one item per requested item in request order with the
\* requested quantity and total = price * quantity; earlier orders are unchanged
C18_SuccessPostcondition ==
    [][\A k \in 1..Len(calls) :
          (calls[k].app = "ts" /\ ReturnOf(k)
              /\ ExpectedError(calls[k].userId, calls[k].items) = "")
          => LET c     == calls[k]
                 order == orders'[Len(orders')]
             IN  /\ calls'[k].result = Success(Len(orders) + 1)
                 /\ Len(orders') = Len(orders) + 1
                 /\ \A i \in 1..Len(orders) : orders'[i] = orders[i]
                 /\ order.id = Len(orders) + 1
                 /\ order.status = "pending"
                 /\ Num(users[order.user].id) = c.userId
                 /\ Len(order.items) = Len(c.items)
                 /\ \A i \in 1..Len(c.items) :
                       /\ Num(products[order.items[i].product].id) = c.items[i].productId
                       /\ order.items[i].quantity = c.items[i].quantity
                       /\ order.items[i].total
                             = Num(products[order.items[i].product].price
                                       * c.items[i].quantity.n)]_vars

\* two orders are stored, the second by a call with two items
C18_Witness ==
    /\ aScript = "tsCalls"
    /\ Len(orders) = 2
    /\ Len(orders[2].items) = 2
    /\ \A k \in 1..Len(calls) : calls[k].result.success

\* C19: no step of a TypeScript createOrder call that does not return success
\* changes orders; so a call that returns { success: false } has stored nothing,
\* whichever item failed
C19_AllOrNothing ==
    /\ [][\A k \in 1..Len(calls) :
            (calls[k].app = "ts" /\ StepOf(k) /\ ~calls'[k].result.success)
                => orders' = orders]_vars
    /\ [](aScript = "tsCalls" =>
            Len(orders) = Cardinality({k \in 1..Len(calls) : calls[k].result.success}))

\* a call has failed on its second item and nothing is stored
C19_Witness ==
    /\ aScript = "tsCalls"
    /\ orders = <<>>
    /\ \E k \in 1..Len(calls) :
          /\ calls[k].result = Failure("Product Gizmo is out of stock")
          /\ Len(calls[k].orderItems) = 1

\* C20: under every interleaving of createOrder calls, in both apps, the order
\* at position i (counted from 1) has id i
C20_SequentialIds ==
    \A i \in 1..Len(orders) : orders[i].id = i

\* two overlapping calls have both stored an order, the later call first
C20_Witness ==
    /\ aScript \in {"tsCalls", "jsCalls"}
    /\ Len(orders) = 2
    /\ orders[1].user # orders[2].user \/ orders[1].items # orders[2].items
    /\ \E k \in 1..Len(calls) : calls[k].result.order = 1 /\ k = 2

\* the sum of price * quantity over the requested items
RECURSIVE SumOfItems(_)
SumOfItems(items) ==
    IF items = <<>> THEN 0
    ELSE products[fetchProduct(items[1].productId)].price * items[1].quantity.n
            + SumOfItems(Tail(items))

\* the request that stored the order with this id
RequestOf(id) == calls[CHOOSE k \in 1..Len(calls) : calls[k].result.order = id]

\* C21: every order stored by the TypeScript app has subtotal = sum of
\* price * quantity over its items, discount = 10% of subtotal for a premium
\* user, 20% for an enterprise user and 0 for a basic one, tax = 8% of
\* (subtotal - discount) and total = subtotal - discount + tax; every order
\* stored by the JavaScript app has discount 0, for a premium user too
C21_OrderTotals ==
    \A i \in 1..Len(orders) :
        LET o    == orders[i]
            tier == users[o.user].tier
        IN  IF aScript \in {"tsMain", "tsCalls"}
            THEN /\ \A f \in {"subtotal", "discount", "tax", "total"} : o[f].t = "number"
                 /\ o.subtotal.n = SumOfItems(RequestOf(o.id).items)
                 /\ o.discount.n * 10 =
                        (CASE tier = "premium"    -> o.subtotal.n
                           [] tier = "enterprise" -> 2 * o.subtotal.n
                           [] tier = "basic"      -> 0)
                 /\ o.tax.n * 100 = (o.subtotal.n - o.discount.n) * 8
                 /\ o.total.n = o.subtotal.n - o.discount.n + o.tax.n
            ELSE o.discount = Num(0)

\* main of the TypeScript app has stored the order of the premium user Alice:
\* subtotal 109.97, discount 10.997, tax 7.91784, total 106.89084
C21_Witness ==
    /\ aScript = "tsMain"
    /\ Len(orders) = 1
    /\ users[orders[1].user].tier = "premium"
    /\ orders[1].subtotal = Num(10997000)
    /\ orders[1].discount = Num(1099700)
    /\ orders[1].tax = Num(791784)
    /\ orders[1].total = Num(10689084)

\* ---------------------------------------------------------------------------
\* Scripts 06 and 08 (JavaScript): the file is run top to bottom, one
\* top-level statement after another.  A statement that throws is not inside
\* any try block, so the exception is uncaught and the run ends there.
\* ---------------------------------------------------------------------------

\* An object literal: its properties in the order they were written.
Object(entries) == [t |-> "object", n |-> 0, s |-> "", entries |-> entries]

\* An array literal.
Array(items) == [t |-> "array", n |-> 0, s |-> "", items |-> items]

IsNullish(v) == v.t \in {"null", "undefined"}

\* v[name] for a value that is neither null nor undefined: an own property
\* of an object, the length of a string or an array, undefined otherwise.
Get(v, name) ==
    CASE v.t = "object" ->
             IF \E i \in 1..Len(v.entries) : v.entries[i][1] = name
             THEN v.entries[CHOOSE i \in 1..Len(v.entries) : v.entries[i][1] = name][2]
             ELSE Undef
      [] v.t = "string" /\ name = "length" -> Num(Len(v.s))
      [] v.t = "array" /\ name = "length"  -> Num(Len(v.items))
      [] OTHER -> Undef

\* The message of the TypeError raised by reading a property of null or
\* undefined.
CannotRead(v, name) ==
    "TypeError: Cannot read properties of " \o ToStringJs(v)
        \o " (reading '" \o name \o "')"

\* String(v), as a template literal and the + operator convert a value.
RECURSIVE ToStr(_)
RECURSIVE JoinItems(_)
JoinItems(items) ==
    IF items = <<>> THEN ""
    ELSE (IF IsNullish(items[1]) THEN "" ELSE ToStr(items[1]))
            \o (IF Len(items) > 1 THEN "," ELSE "")
            \o JoinItems(Tail(items))

ToStr(v) ==
    CASE v.t = "object" -> "[object Object]"
      [] v.t = "array"  -> JoinItems(v.items)
      [] OTHER          -> ToStringJs(v)

\* a + b: concatenation as soon as one operand is a string, an object or an
\* array, the sum of the numbers otherwise.
Plus(a, b) ==
    IF {a.t, b.t} \cap {"string", "object", "array"} # {}
    THEN Text(ToStr(a) \o ToStr(b))
    ELSE AddJs(ToNumber(a), ToNumber(b))

\* a >= b for a number b: false when a does not convert to a number.
GreaterOrEqual(a, b) ==
    LET x == IF a.t \in {"object", "array"} THEN NaN ELSE ToNumber(a)
    IN  Bool(x.t = "number" /\ b.t = "number" /\ x.n >= b.n)

\* How console.log shows a value that is an element or a property: strings
\* in single quotes, arrays in [ ], objects in { }.
RECURSIVE Inspect(_)
RECURSIVE InspectItems(_)
RECURSIVE InspectEntries(_)
InspectItems(items) ==
    IF items = <<>> THEN ""
    ELSE Inspect(items[1]) \o (IF Len(items) > 1 THEN ", " ELSE "")
            \o InspectItems(Tail(items))

InspectEntries(entries) ==
    IF entries = <<>> THEN ""
    ELSE entries[1][1] \o ": " \o Inspect(entries[1][2])
            \o (IF Len(entries) > 1 THEN ", " ELSE "")
            \o InspectEntries(Tail(entries))

Inspect(v) ==
    CASE v.t = "string" -> "'" \o v.s \o "'"
      [] v.t = "array"  ->
             IF v.items = <<>> THEN "[]" ELSE "[ " \o InspectItems(v.items) \o " ]"
      [] v.t = "object" ->
             IF v.entries = <<>> THEN "{}" ELSE "{ " \o InspectEntries(v.entries) \o " }"
      [] OTHER          -> ToStringJs(v)

\* One line of console.log(a, b, ...): strings as they are, the other
\* values inspected, a space between two arguments.
RECURSIVE LogLine(_)
LogLine(args) ==
    IF args = <<>> THEN ""
    ELSE (IF args[1].t = "string" THEN args[1].s ELSE Inspect(args[1]))
            \o (IF Len(args) > 1 THEN " " ELSE "")
            \o LogLine(Tail(args))

\* What a call does: the lines it logs, and either the value it returns or
\* the error it throws.
Completes(lines, value) ==
    [lines |-> lines, threw |-> FALSE, value |-> value, error |-> ""]

Raises(lines, error) ==
    [lines |-> lines, threw |-> TRUE, value |-> Undef, error |-> error]

\* String.prototype.toUpperCase on the names the scripts pass.
UpperCase == [Alice |-> "ALICE", Bob |-> "BOB"]

toUpperCase(s) == UpperCase[s]

\* 06: function processUserData(user)
processUserData(user) ==
    LET name  == Get(user, "name")
        lines == << "Processing user: " \o ToStr(name),
                    "Email: " \o ToStr(Get(user, "email")),
                    "Age: " \o ToStr(Get(user, "age")) >>
                 \o (IF Truthy(Get(user, "isAdmin"))
                     THEN <<"User is an administrator!">> ELSE <<>>)
    IN  IF IsNullish(name) THEN Raises(lines, CannotRead(name, "toUpperCase"))
        ELSE IF name.t # "string"
        THEN Raises(lines, "TypeError: user.name.toUpperCase is not a function")
        ELSE Completes(lines,
                 Object(<< <<"displayName", Text(toUpperCase(name.s))>>,
                           <<"contact", Get(user, "email")>>,
                           <<"adult", GreaterOrEqual(Get(user, "age"), Num(18))>> >>))

\* 06: function sendEmail(to, subject, body)
sendEmail(to, subject, body) ==
    Completes(<< "Sending email to " \o ToStr(to),
                 "Subject: " \o ToStr(subject),
                 "Body: " \o ToStr(body) >>, Undef)

\* a * b
Times(a, b) ==
    IF {a.t, b.t} \cap {"object", "array"} # {} THEN NaN ELSE MulJs(a, b)

\* 06: function calculate(a, b, operation)
calculate(a, b, operation) ==
    IF StrictEq(operation, Text("add")) THEN Completes(<<>>, Plus(a, b))
    ELSE IF StrictEq(operation, Text("multiply")) THEN Completes(<<>>, Times(a, b))
    ELSE Completes(<<>>, Null)

\* 06: async function fetchUserFromApi(userId); it has no await, so the whole
\* body runs inside the call, and the promise it returns is dropped.
fetchUserFromApi(userId) ==
    LET response == Object(<< <<"id", userId>>, <<"name", Text("Alice")>>,
                              <<"age", Text("thirty")>> >>)
    IN  Completes(IF Truthy(GreaterOrEqual(Get(response, "age"), Num(18)))
                  THEN <<"Adult user">> ELSE <<"Minor user">>,
                  response)

\* ids.map((id) => `processed-${id}`)
RECURSIVE MapProcessed(_)
MapProcessed(items) ==
    IF items = <<>> THEN <<>>
    ELSE <<Text("processed-" \o ToStr(items[1]))>> \o MapProcessed(Tail(items))

\* 08: function processIds(ids)
processIds(ids) ==
    IF ids.t = "array"
    THEN Completes(<<LogLine(<<Text("Processing " \o ToStr(Get(ids, "length")) \o " IDs:"), ids>>)>>,
                   Array(MapProcessed(ids.items)))
    ELSE Completes(<<LogLine(<<Text("Processing single ID:"), ids>>)>>,
                   Array(<<Text("processed-" \o ToStr(ids))>>))

\* 08: function getUserDisplay(user)
getUserDisplay(user) ==
    IF IsNullish(user) THEN Raises(<<>>, CannotRead(user, "name"))
    ELSE IF Truthy(Get(user, "name")) THEN Completes(<<>>, Get(user, "name"))
    ELSE IF Truthy(Get(user, "firstName"))
    THEN Completes(<<>>, Text(ToStr(Get(user, "firstName")) \o " "
                                  \o ToStr(Get(user, "lastName"))))
    ELSE Completes(<<>>, Text("Unknown User"))

\* 08: function getLength(value)
getLength(value) ==
    IF Truthy(value) THEN Completes(<<>>, Get(value, "length"))
    ELSE Completes(<<>>, Num(0))

\* The message of new Error(message): empty when no message is given.
ErrorMessage(message) ==
    IF message.t = "undefined" THEN "Error" ELSE "Error: " \o ToStr(message)

\* 08: function handleApiResponse(response)
handleApiResponse(response) ==
    IF IsNullish(response) THEN Raises(<<>>, CannotRead(response, "success"))
    ELSE IF Truthy(Get(response, "success"))
    THEN Completes(<<LogLine(<<Text("Data:"), Get(response, "data")>>)>>,
                   Get(response, "data"))
    ELSE Raises(<<LogLine(<<Text("Error:"), Get(response, "error")>>)>>,
                ErrorMessage(Get(response, "error")))

\* 08: function addOrConcat(a, b)
addOrConcat(a, b) == Completes(<<>>, Plus(a, b))

\* A top-level statement: a call, alone or as the argument of console.log.
\* A missing argument is undefined.
Call(fn, args) == [fn |-> fn, args |-> args, logged |-> FALSE]

Log(fn, args) == [fn |-> fn, args |-> args, logged |-> TRUE]

Arg(args, i) == IF i <= Len(args) THEN args[i] ELSE Undef

Apply(fn, args) ==
    CASE fn = "processUserData"   -> processUserData(Arg(args, 1))
      [] fn = "sendEmail"         -> sendEmail(Arg(args, 1), Arg(args, 2), Arg(args, 3))
      [] fn = "calculate"         -> calculate(Arg(args, 1), Arg(args, 2), Arg(args, 3))
      [] fn = "fetchUserFromApi"  -> fetchUserFromApi(Arg(args, 1))
      [] fn = "processIds"        -> processIds(Arg(args, 1))
      [] fn = "getUserDisplay"    -> getUserDisplay(Arg(args, 1))
      [] fn = "getLength"         -> getLength(Arg(args, 1))
      [] fn = "handleApiResponse" -> handleApiResponse(Arg(args, 1))
      [] fn = "addOrConcat"       -> addOrConcat(Arg(args, 1), Arg(args, 2))

\* What running one statement does: the lines of the call, then the line of
\* console.log when the call returned and its value is logged.
Run(stmt) ==
    LET r == Apply(stmt.fn, stmt.args)
    IN  IF stmt.logged /\ ~r.threw
        THEN [r EXCEPT !.lines = @ \o <<LogLine(<<r.value>>)>>]
        ELSE r

\* 06: the top-level statements, top to bottom (const result1 = ... and
\* console.log(result1) are one entry).
Script06 ==
    << Log("processUserData", <<Object(<< <<"name", Text("Alice")>>,
                                          <<"email", Text("alice@example.com")>>,
                                          <<"age", Num(30)>>,
                                          <<"isAdmin", Bool(TRUE)>> >>)>>),
       Call("processUserData", <<Object(<< <<"firstName", Text("Bob")>>,
                                           <<"emailAddress", Text("bob@x")>>,
                                           <<"birthYear", Num(1990)>> >>)>>),
       Call("sendEmail", <<Text("alice@example.com"), Text("Hello")>>),
       Call("sendEmail", <<Object(<< <<"email", Text("bob@x")>> >>), Text("Hi"), Text("Test")>>),
       Call("sendEmail", <<Null, Null, Null>>),
       Log("calculate", <<Num(5), Num(3), Text("add")>>),
       Log("calculate", <<Text("5"), Text("3"), Text("add")>>),
       Log("calculate", <<Num(5), Num(3), Text("divide")>>),
       Log("calculate", <<Object(<<>>), Array(<<>>), Text("add")>>),
       Call("fetchUserFromApi", <<Num(1)>>) >>

\* 08: the top-level statements, top to bottom.
Script08 ==
    << Log("processIds", <<Text("abc123")>>),
       Log("processIds", <<Array(<<Text("id1"), Text("id2")>>)>>),
       Log("processIds", <<Num(123)>>),
       Log("processIds", <<Object(<< <<"id", Text("abc")>> >>)>>),
       Log("processIds", <<Null>>),
       Log("getUserDisplay", <<Object(<< <<"name", Text("Alice")>> >>)>>),
       Log("getUserDisplay", <<Object(<< <<"firstName", Text("Bob")>>,
                                         <<"lastName", Text("Smith")>> >>)>>),
       Log("getUserDisplay", <<Object(<< <<"firstName", Text("Carol")>> >>)>>),
       Log("getUserDisplay", <<Object(<< <<"name", Text("")>> >>)>>),
       Log("getUserDisplay", <<Null>>),
       Log("getLength", <<Text("hello")>>),
       Log("getLength", <<Array(<<Num(1), Num(2), Num(3)>>)>>),
       Log("getLength", <<Null>>),
       Log("getLength", <<Text("")>>),
       Log("getLength", <<Array(<<>>)>>),
       Log("getLength", <<Num(123)>>),
       Log("getLength", <<Object(<< <<"length", Text("not a number")>> >>)>>),
       Call("handleApiResponse",
            <<Object(<< <<"success", Bool(TRUE)>>,
                        <<"data", Object(<< <<"id", Num(1)>>, <<"name", Text("Alice")>> >>)>> >>)>>),
       Call("handleApiResponse",
            <<Object(<< <<"success", Bool(FALSE)>>, <<"error", Text("Not found")>> >>)>>),
       Call("handleApiResponse", <<Object(<< <<"success", Bool(TRUE)>> >>)>>),
       Call("handleApiResponse", <<Object(<< <<"success", Bool(FALSE)>> >>)>>),
       Call("handleApiResponse", <<Object(<<>>)>>),
       Log("addOrConcat", <<Num(5), Num(3)>>),
       Log("addOrConcat", <<Text("foo"), Text("bar")>>),
       Log("addOrConcat", <<Num(5), Text("3")>>),
       Log("addOrConcat", <<Text("5"), Num(3)>>) >>

DemoFiles == {Script06, Script08}

\* The statements of a script that throw.
Throwing(script) == {i \in 1..Len(script) : Run(script[i]).threw}

\* The script with the statements of off commented out.
RECURSIVE Without(_, _, _)
Without(script, off, i) ==
    IF i > Len(script) THEN <<>>
    ELSE (IF i \in off THEN <<>> ELSE <<script[i]>>) \o Without(script, off, i + 1)

\* A script is run as published, or with some of its throwing calls
\* commented out, which is how the statements below them are shown.
InitScripts ==
    /\ RouteIdle
    /\ LoopIdle
    /\ TruthIdle
    /\ AppIdle
    /\ CallIdle
    /\ \E script \in DemoFiles : \E off \in SUBSET Throwing(script) :
           sProg = Without(script, off, 1)
    /\ sPc = 1
    /\ sOut = <<>>
    /\ sStatus = "running"

\* The next statement returns: its lines are printed and the run goes on.
StatementReturns ==
    /\ sStatus = "running"
    /\ sPc <= Len(sProg)
    /\ ~Run(sProg[sPc]).threw
    /\ sOut' = sOut \o Run(sProg[sPc]).lines
    /\ sPc' = sPc + 1
    /\ UNCHANGED <<sProg, sStatus>>
    /\ UNCHANGED exceptScript

\* The next statement throws: nothing catches the exception, the runtime
\* reports it and the run is over.
StatementThrows ==
    /\ sStatus = "running"
    /\ sPc <= Len(sProg)
    /\ Run(sProg[sPc]).threw
    /\ sOut' = sOut \o Run(sProg[sPc]).lines \o <<"Uncaught " \o Run(sProg[sPc]).error>>
    /\ sStatus' = "crashed"
    /\ UNCHANGED <<sProg, sPc>>
    /\ UNCHANGED exceptScript

\* The last statement has returned.
ScriptEnds ==
    /\ sStatus = "running"
    /\ sPc > Len(sProg)
    /\ sStatus' = "finished"
    /\ UNCHANGED <<sProg, sPc, sOut>>
    /\ UNCHANGED exceptScript

NextScripts == StatementReturns \/ StatementThrows \/ ScriptEnds

SpecScripts == InitScripts /\ [][NextScripts]_vars

\* The outputs the comments of a script give for the statements below its
\* first throwing call: in 06 the sendEmail and calculate lines below the
\* second processUserData call, in 08 the getLength, handleApiResponse and
\* addOrConcat lines below getUserDisplay(null).
DocumentedBelow(script) ==
    IF script = Script06
    THEN {"Sending email to alice@example.com", "Sending email to [object Object]",
          "Sending email to null", "8", "53", "null", "[object Object]"}
    ELSE {"5", "3", "0", "undefined", "not a number",
          "Data: { id: 1, name: 'Alice' }", "Data: undefined", "Error: undefined",
          "8", "foobar", "53"}

Printed == {sOut[i] : i \in 1..Len(sOut)}

\* C22: when script 06 or script 08 is run top to bottom as published, the
\* uncaught TypeError of its deliberately failing call does not stop the run:
\* once the run is over, every statement has been executed and the outputs
\* documented for the statements below the failing call have been printed.
C22_RunContinuesAfterTypeError ==
    (sProg \in DemoFiles /\ sStatus \in {"finished", "crashed"})
        => /\ sPc > Len(sProg)
           /\ DocumentedBelow(sProg) \subseteq Printed

====
